---- MODULE Spec2Model ----
(***************************************************************************)
(* ETL Dashboard transformation core: the Field Normalizer and the Date     *)
(* Dimension Builder (backend/services/cleaning.py), the Parts Processor   *)
(* (backend/services/masterbom_rules.py), the Status Processor             *)
(* (backend/services/status_rules.py), the Storage Writer                  *)
(* (backend/services/storage.py) and the Pipeline Orchestrator             *)
(* (backend/api/routes_transform.py).                                      *)
(*                                                                         *)
(* Text is a sequence of one-character strings, so that trimming, case     *)
(* conversion, character deletion and substring tests are computed as the  *)
(* Python code computes them.  A cell of a table is a record               *)
(*   [t, s, n]  with t in {"null", "str", "int", "float"}:                 *)
(*   s is the text of a "str" cell, n the value of an "int" cell or the    *)
(*   value of a "float" cell in units of 1/Scale.                          *)
(***************************************************************************)
EXTENDS Integers, Sequences, FiniteSets, TLC

VARIABLES
    nz_pc, nz_in, nz_out, nz_out2, nz_v,          \* Field Normalizer harness
    st_pc, st_cols, st_rows, st_raw, st_log,      \* Status Processor
    st_fault, st_exc, st_before,
    df_pc, df_cols, df_rows, id_column, project_columns,
    plant_item_status, fact_parts, masterbom_clean, p_log, date_cols,
                                                                    \* Parts Processor
    dd_pc, master_df, rq_date_cols, date_column_names, dim_dates,   \* Date Dimension Builder
    sw_pc, all_dataframes, sw_fail, processed_folder, artifacts, dict_path, sw_log,
                                                                    \* Storage Writer
    run_pc, rq, run_log, response,                                  \* Pipeline Orchestrator
    ord_pc, ord_raw, ord_first,                   \* the two processors in either order
    cc_pc, cc_tables, cc_next, cc_saw, cc_conn, cc_err,   \* concurrent _save_sqlite calls
    cc_path, cc_inodes, cc_pooled

nzVars == <<nz_pc, nz_in, nz_out, nz_out2, nz_v>>
stVars == <<st_pc, st_cols, st_rows, st_raw, st_log, st_fault, st_exc, st_before>>
dfVars == <<df_pc, df_cols, df_rows, id_column, project_columns,
            plant_item_status, fact_parts, masterbom_clean, p_log, date_cols>>
ddVars == <<dd_pc, master_df, rq_date_cols, date_column_names, dim_dates>>
swVars == <<sw_pc, all_dataframes, sw_fail, processed_folder, artifacts, dict_path, sw_log>>
runVars == <<run_pc, rq, run_log, response>>
ordVars == <<ord_pc, ord_raw, ord_first>>
ccVars == <<cc_pc, cc_tables, cc_next, cc_saw, cc_conn, cc_err, cc_path, cc_inodes, cc_pooled>>
vars == <<nzVars, stVars, dfVars, ddVars, swVars, runVars, ordVars, ccVars>>

----------------------------------------------------------------------------
(* Bounds of the model *)

\* longest identifier text enumerated exhaustively for clean_id
MaxLen == 3
\* most rows of a parts table
MaxRows == 2
\* most rows of a status table
MaxStatusRows == 2
\* most rows of a table handed to the Date Dimension Builder alone
MaxDateRows == 2
\* most rows of a table handed to the Storage Writer alone
MaxTableRows == 1
\* most writes that fail in one call of the Storage Writer
MaxFailures == 1
\* most tables of a mapping handed to the Storage Writer alone
MaxTables == 3
\* most rows of the parts table of a whole transformation run
MaxRunRows == 1


----------------------------------------------------------------------------
(* Cells *)

Null == [t |-> "null", s |-> <<>>, n |-> 0]
StrCell(s) == [t |-> "str", s |-> s, n |-> 0]
IntCell(n) == [t |-> "int", s |-> <<>>, n |-> n]
FloatCell(n) == [t |-> "float", s |-> <<>>, n |-> n]

\* pd.isna / pd.notna on a scalar
isna(c) == c.t = "null"

----------------------------------------------------------------------------
(* Characters and text *)

LowerLetters == <<"a","b","c","d","e","f","g","h","i","j","k","l","m",
                  "n","o","p","q","r","s","t","u","v","w","x","y","z">>
UpperLetters == <<"A","B","C","D","E","F","G","H","I","J","K","L","M",
                  "N","O","P","Q","R","S","T","U","V","W","X","Y","Z">>
Digits == <<"0","1","2","3","4","5","6","7","8","9">>

Range(f) == {f[i] : i \in DOMAIN f}

LowerSet == Range(LowerLetters)
UpperSet == Range(UpperLetters)
DigitSet == Range(Digits)

IsLower(c) == c \in LowerSet
IsUpper(c) == c \in UpperSet
IsLetter(c) == IsLower(c) \/ IsUpper(c)
IsDigit(c) == c \in DigitSet
\* str.strip() and the regex class \s, on the characters of the model
IsSpace(c) == c \in {" ", "\t", "\n"}

IndexOf(seq, c) == CHOOSE i \in DOMAIN seq : seq[i] = c

UpperChar(c) == IF IsLower(c) THEN UpperLetters[IndexOf(LowerLetters, c)] ELSE c
LowerChar(c) == IF IsUpper(c) THEN LowerLetters[IndexOf(UpperLetters, c)] ELSE c

\* str.upper(), str.lower()
Upper(s) == [i \in DOMAIN s |-> UpperChar(s[i])]
Lower(s) == [i \in DOMAIN s |-> LowerChar(s[i])]

RECURSIVE LStrip(_)
LStrip(s) == IF s # <<>> /\ IsSpace(Head(s)) THEN LStrip(Tail(s)) ELSE s

RECURSIVE RStrip(_)
RStrip(s) ==
    IF s # <<>> /\ IsSpace(s[Len(s)]) THEN RStrip(SubSeq(s, 1, Len(s) - 1)) ELSE s

\* str.strip()
Strip(s) == RStrip(LStrip(s))

\* sub in s  (Python substring test)
Contains(s, sub) ==
    \E i \in 0..(Len(s) - Len(sub)) : SubSeq(s, i + 1, i + Len(sub)) = sub

\* s.replace(old, new) for a one-character old
RECURSIVE ReplaceChar(_, _, _)
ReplaceChar(s, old, new) ==
    IF s = <<>> THEN <<>>
    ELSE (IF Head(s) = old THEN new ELSE <<Head(s)>>) \o ReplaceChar(Tail(s), old, new)

\* decimal digits of a natural number
RECURSIVE NatText(_)
NatText(n) == IF n < 10 THEN <<Digits[n + 1]>> ELSE NatText(n \div 10) \o <<Digits[(n % 10) + 1]>>

DigitVal(c) == IndexOf(Digits, c) - 1

\* value of a non-empty run of digits
RECURSIVE DigitsVal(_)
DigitsVal(s) == IF s = <<>> THEN 0 ELSE DigitsVal(SubSeq(s, 1, Len(s) - 1)) * 10 + DigitVal(s[Len(s)])

RECURSIVE Pow10(_)
Pow10(k) == IF k = 0 THEN 1 ELSE 10 * Pow10(k - 1)

\* fixed-point unit of float values: a float cell holds n / Scale
Scale == Pow10(6)

\* the six fraction digits of a float, trailing zeros dropped, one digit at least
RECURSIVE DropTrailingZeros(_)
DropTrailingZeros(s) ==
    IF Len(s) > 1 /\ s[Len(s)] = "0" THEN DropTrailingZeros(SubSeq(s, 1, Len(s) - 1)) ELSE s

FracText(f) ==
    LET d == NatText(f)
        pad == [i \in 1..(6 - Len(d)) |-> "0"]
    IN DropTrailingZeros(pad \o d)

\* str(x) of a Python float, in the positional notation Python prints from
\* 0.0001 up to 1e16 ("85.0", "0.5"); the floats of the model are in that range or 0
FloatText(n) ==
    LET a == IF n < 0 THEN -n ELSE n
    IN (IF n < 0 THEN <<"-">> ELSE <<>>) \o NatText(a \div Scale) \o <<".">> \o FracText(a % Scale)

\* str(x) of a Python int
IntText(n) == (IF n < 0 THEN <<"-">> ELSE <<>>) \o NatText(IF n < 0 THEN -n ELSE n)

\* str(value) of a cell; a missing value prints as "nan"
Str(c) ==
    CASE c.t = "str" -> c.s
      [] c.t = "int" -> IntText(c.n)
      [] c.t = "float" -> FloatText(c.n)
      [] OTHER -> <<"n","a","n">>

----------------------------------------------------------------------------
(* cleaning.clean_id *)

\* re.sub(r'[^A-Za-z0-9\s\-_]', '', s)
KeepIdChar(c) == IsLetter(c) \/ IsDigit(c) \/ IsSpace(c) \/ c = "-" \/ c = "_"
RemoveDisallowed(s) == SelectSeq(s, KeepIdChar)

\* re.sub(r'[\s_]+', ' ', s)
IsSepChar(c) == IsSpace(c) \/ c = "_"
RECURSIVE CollapseSeparators(_)
CollapseSeparators(s) ==
    IF s = <<>> THEN <<>>
    ELSE IF IsSepChar(Head(s))
         THEN IF Tail(s) # <<>> /\ IsSepChar(Head(Tail(s)))
              THEN CollapseSeparators(Tail(s))
              ELSE <<" ">> \o CollapseSeparators(Tail(s))
         ELSE <<Head(s)>> \o CollapseSeparators(Tail(s))

\* mutant: the final strip() is missing
clean_id_no_final_strip(x) ==
    IF isna(x) THEN <<>>
    ELSE Upper(CollapseSeparators(RemoveDisallowed(Strip(Str(x)))))

\* mutant: runs of whitespace and underscores are not collapsed
clean_id_keep_underscore(x) ==
    IF isna(x) THEN <<>>
    ELSE Strip(Upper(RemoveDisallowed(Strip(Str(x)))))

clean_id(x) ==
    IF isna(x) THEN <<>>
    ELSE Strip(Upper(CollapseSeparators(RemoveDisallowed(Strip(Str(x))))))

----------------------------------------------------------------------------
(* status_rules.StatusProcessor._parse_percentage_values *)

T_complete == <<"c","o","m","p","l","e","t","e">>
T_done == <<"d","o","n","e">>
T_finished == <<"f","i","n","i","s","h","e","d">>
T_100 == <<"1","0","0">>
T_none == <<"n","o","n","e">>
T_n_a == <<"n","/","a">>
T_na == <<"n","a">>
T_not_available == <<"n","o","t"," ","a","v","a","i","l","a","b","l","e">>
T_0 == <<"0">>

\* float(text): surrounding whitespace, an optional sign, digits with at most
\* one decimal point.  (Exponents, "inf", "nan" and digit separators are not
\* among the texts of the model.)
FloatBody(s) ==
    LET u == Strip(s)
    IN IF u # <<>> /\ Head(u) \in {"-", "+"} THEN Tail(u) ELSE u
FloatSign(s) ==
    LET u == Strip(s)
    IN IF u # <<>> /\ Head(u) = "-" THEN -1 ELSE 1
DotCount(b) == Cardinality({i \in DOMAIN b : b[i] = "."})
FloatOk(s) ==
    LET b == FloatBody(s)
    IN /\ \A i \in DOMAIN b : IsDigit(b[i]) \/ b[i] = "."
       /\ DotCount(b) <= 1
       /\ \E i \in DOMAIN b : IsDigit(b[i])
FloatVal(s) ==
    LET b == FloatBody(s)
        dot == IF DotCount(b) = 1 THEN IndexOf(b, ".") ELSE Len(b) + 1
        ip == SubSeq(b, 1, dot - 1)
        fp == SubSeq(b, dot + 1, Len(b))
    IN FloatSign(s) * (DigitsVal(ip) * Scale + DigitsVal(fp) * (Scale \div Pow10(Len(fp))))

parse_value(val) ==
    IF isna(val) THEN Null
    ELSE LET val_str == Strip(Str(val))
         IN IF val_str = <<>> THEN Null
            ELSE LET t == ReplaceChar(val_str, "%", <<>>)
                 IN IF FloatOk(t)
                    THEN LET num_val == FloatVal(t)
                         IN IF num_val > Scale THEN FloatCell(num_val \div 100)
                            ELSE FloatCell(num_val)
                    ELSE LET val_lower == Lower(t)
                         IN IF val_lower \in {T_complete, T_done, T_finished, T_100}
                            THEN FloatCell(Scale)
                            ELSE IF val_lower \in {T_none, T_n_a, T_na, T_not_available, T_0}
                                 THEN FloatCell(0)
                                 ELSE Null

----------------------------------------------------------------------------
(* Field Normalizer: the pure functions applied to bounded inputs *)

T_validate_input == <<" "," ","7","0","0","9","@","6","9","3","3","#"," "," ">>
T_validate_output == <<"7","0","0","9","6","9","3","3">>

IdAlphabet == {"a", "Z", "7", " ", "_", "-", "@", "\t"}

\* identifier inputs that are no text over IdAlphabet
IdSpecialInputs ==
    {StrCell(T_validate_input), Null, IntCell(7009), IntCell(-12),
     FloatCell(12 * Scale + Scale \div 2)}

PctTexts ==
    { <<"8","5">>, <<"8","5","%">>, <<" ","8","5"," ","%"," ">>, <<"0",".","8","5">>,
      <<"1">>, <<"1","%">>, <<"0",".","5","%">>, <<"1","0","0">>, <<"1","0","0","%">>,
      <<"1","5","0">>, <<"1","0","0","0","%">>, <<"-","5">>, <<"-","5","0","%">>,
      <<"0">>, <<>>, <<" ">>, <<"%">>, <<"1",".","0","1">>,
      <<"C","o","m","p","l","e","t","e">>, T_done, T_finished, T_none,
      <<"N","/","A">>, T_na, T_not_available, <<"t","b","d">>, <<"8","5"," ","p","c","t">> }

PctInputs ==
    {StrCell(s) : s \in PctTexts}
        \cup {Null, IntCell(85), IntCell(1), IntCell(0), IntCell(150),
              FloatCell(Scale \div 2), FloatCell(85 * Scale)}

\* fractions v in [0, 1] of the round trip, in units of 1/Scale
RoundTripValues ==
    {k * (Scale \div 10000) : k \in (0..150) \cup {2500, 5000, 8500, 9999, 10000}}

\* clean_id is applied to every text over IdAlphabet of length at most MaxLen
\* and to the special inputs
InitNormalizer ==
    /\ \/ /\ nz_pc = "id"
          /\ nz_v = -1
          /\ \/ \E k \in 0..MaxLen : \E s \in [1..k -> IdAlphabet] : nz_in = StrCell(s)
             \/ nz_in \in IdSpecialInputs
       \/ nz_pc = "pct" /\ nz_in \in PctInputs /\ nz_v = -1
       \/ nz_pc = "v" /\ nz_in = Null /\ nz_v \in RoundTripValues
    /\ nz_out = Null
    /\ nz_out2 = Null

\* clean_id(x)
CleanIdentifier ==
    /\ nz_pc = "id"
    /\ nz_out' = StrCell(clean_id(nz_in))
    /\ nz_pc' = "id_cleaned"
    /\ UNCHANGED <<nz_in, nz_out2, nz_v>>
    /\ UNCHANGED <<stVars, dfVars, ddVars, swVars, runVars, ordVars, ccVars>>

\* clean_id(clean_id(x))
CleanIdentifierAgain ==
    /\ nz_pc = "id_cleaned"
    /\ nz_out2' = StrCell(clean_id(nz_out))
    /\ nz_pc' = "id_recleaned"
    /\ UNCHANGED <<nz_in, nz_out, nz_v>>
    /\ UNCHANGED <<stVars, dfVars, ddVars, swVars, runVars, ordVars, ccVars>>

\* str(v * 100) + "%"
FormatPercent ==
    /\ nz_pc = "v"
    /\ nz_in' = StrCell(FloatText(nz_v * 100) \o <<"%">>)
    /\ nz_pc' = "pct"
    /\ UNCHANGED <<nz_out, nz_out2, nz_v>>
    /\ UNCHANGED <<stVars, dfVars, ddVars, swVars, runVars, ordVars, ccVars>>

\* parse_percentage(text)
ParsePercentage ==
    /\ nz_pc = "pct"
    /\ nz_out' = parse_value(nz_in)
    /\ nz_pc' = "pct_parsed"
    /\ UNCHANGED <<nz_in, nz_out2, nz_v>>
    /\ UNCHANGED <<stVars, dfVars, ddVars, swVars, runVars, ordVars, ccVars>>

----------------------------------------------------------------------------
(* cleaning.standardize_text *)

\* re.sub(r'\s+', ' ', text)
RECURSIVE CollapseWhitespace(_)
CollapseWhitespace(s) ==
    IF s = <<>> THEN <<>>
    ELSE IF IsSpace(Head(s))
         THEN IF Tail(s) # <<>> /\ IsSpace(Head(Tail(s)))
              THEN CollapseWhitespace(Tail(s))
              ELSE <<" ">> \o CollapseWhitespace(Tail(s))
         ELSE <<Head(s)>> \o CollapseWhitespace(Tail(s))

\* re.sub(r'\\n', '\n', text): a backslash followed by n becomes a line break
RECURSIVE UnescapeNewlines(_)
UnescapeNewlines(s) ==
    IF s = <<>> THEN <<>>
    ELSE IF Len(s) >= 2 /\ s[1] = "\\" /\ s[2] = "n"
         THEN <<"\n">> \o UnescapeNewlines(SubSeq(s, 3, Len(s)))
         ELSE <<Head(s)>> \o UnescapeNewlines(Tail(s))

\* str.title()
Title(s) ==
    [i \in DOMAIN s |->
        IF IsLetter(s[i])
        THEN IF i > 1 /\ IsLetter(s[i - 1]) THEN LowerChar(s[i]) ELSE UpperChar(s[i])
        ELSE s[i]]

\* one value of standardize_text: null and blank values are left as they are
standardize_text_value(val) ==
    IF isna(val) THEN val
    ELSE LET text == Strip(Str(val))
         IN IF text = <<>> THEN val
            ELSE StrCell(Title(CollapseWhitespace(UnescapeNewlines(text))))

----------------------------------------------------------------------------
(* Tables: a sequence of column names and a sequence of rows; a row keeps    *)
(* its index label and holds one cell per column.                            *)

Row(i, cells) == [index |-> i, cells |-> cells]

\* positions of the columns called name
ColumnsNamed(cols, name) == {j \in DOMAIN cols : cols[j] = name}

\* df[col] = f(df[col]) element-wise, for the column at position j
MapColumn(rows, j, f(_)) ==
    [r \in DOMAIN rows |->
        Row(rows[r].index, [k \in DOMAIN rows[r].cells |->
                                IF k = j THEN f(rows[r].cells[k]) ELSE rows[r].cells[k]])]

----------------------------------------------------------------------------
(* status_rules.StatusProcessor *)

T_oem == <<"o","e","m">>
T_project == <<"p","r","o","j","e","c","t">>
T_ppap == <<"p","p","a","p">>
T_psw == <<"p","s","w">>
T_total_part_numbers == <<"t","o","t","a","l"," ","p","a","r","t"," ","n","u","m","b","e","r","s">>
T_psw_available == <<"p","s","w"," ","a","v","a","i","l","a","b","l","e">>
T_drawing_available == <<"d","r","a","w","i","n","g"," ","a","v","a","i","l","a","b","l","e">>
T_1st_ppap_milestone == <<"1","s","t"," ","p","p","a","p"," ","m","i","l","e","s","t","o","n","e">>
T_managed_by == <<"m","a","n","a","g","e","d"," ","b","y">>
N_OEM == <<"O","E","M">>
N_Project == <<"P","r","o","j","e","c","t">>
N_PPAP == <<"P","P","A","P">>
N_PSW == <<"P","S","W">>
N_Total_Part_Numbers == <<"T","o","t","a","l","_","P","a","r","t","_","N","u","m","b","e","r","s">>
N_PSW_Available == <<"P","S","W","_","A","v","a","i","l","a","b","l","e">>
N_Drawing_Available == <<"D","r","a","w","i","n","g","_","A","v","a","i","l","a","b","l","e">>
N_First_PPAP_Milestone == <<"F","i","r","s","t","_","P","P","A","P","_","M","i","l","e","s","t","o","n","e">>
N_Managed_By == <<"M","a","n","a","g","e","d","_","B","y">>
T_percent == <<"p","e","r","c","e","n","t">>
T_available == <<"a","v","a","i","l","a","b","l","e">>

\* the standardizations dict, in its insertion (= iteration) order
standardizations ==
    << <<T_oem, N_OEM>>, <<T_project, N_Project>>, <<T_ppap, N_PPAP>>, <<T_psw, N_PSW>>,
       <<T_total_part_numbers, N_Total_Part_Numbers>>,
       <<T_psw_available, N_PSW_Available>>,
       <<T_drawing_available, N_Drawing_Available>>,
       <<T_1st_ppap_milestone, N_First_PPAP_Milestone>>,
       <<T_managed_by, N_Managed_By>> >>

\* the first pattern of the dict found in the lower-cased header decides
standardize_header_name(header) ==
    LET header_lower == Lower(header)
        hits == {i \in DOMAIN standardizations : Contains(header_lower, standardizations[i][1])}
    IN IF hits # {}
       THEN standardizations[CHOOSE i \in hits : \A j \in hits : i <= j][2]
       ELSE Title(ReplaceChar(header, " ", <<"_">>))

clean_header(col) == standardize_header_name(CollapseWhitespace(Strip(col)))

text_columns == <<N_OEM, N_Project, N_Managed_By>>

percentage_patterns == {<<"%">>, T_percent, T_available, T_complete}

is_percentage(col) == \E pattern \in percentage_patterns : Contains(Lower(col), pattern)

\* re.sub(r'^Project\s*:?\s*', '', name, flags=re.IGNORECASE)
RemoveProjectPrefix(s) ==
    IF Len(s) >= 7 /\ Lower(SubSeq(s, 1, 7)) = T_project
    THEN LET u == LStrip(SubSeq(s, 8, Len(s)))
         IN IF u # <<>> /\ Head(u) = ":" THEN LStrip(Tail(u)) ELSE u
    ELSE s

\* re.sub(r'\s*-\s*Project$', '', name, flags=re.IGNORECASE)
RemoveProjectSuffix(s) ==
    IF Len(s) >= 7 /\ Lower(SubSeq(s, Len(s) - 6, Len(s))) = T_project
    THEN LET h == RStrip(SubSeq(s, 1, Len(s) - 7))
         IN IF h # <<>> /\ h[Len(h)] = "-" THEN RStrip(SubSeq(h, 1, Len(h) - 1)) ELSE s
    ELSE s

\* re.sub(r'\s*\(.*\)$', '', name): the leftmost "(" that reaches the final ")"
\* without crossing a line break
RemoveParenthetical(s) ==
    LET opens == {p \in DOMAIN s :
                     /\ s[p] = "("
                     /\ p < Len(s)
                     /\ \A q \in (p + 1)..(Len(s) - 1) : s[q] # "\n"}
    IN IF s # <<>> /\ s[Len(s)] = ")" /\ opens # {}
       THEN RStrip(SubSeq(s, 1, (CHOOSE p \in opens : \A q \in opens : p <= q) - 1))
       ELSE s

clean_project(name) ==
    IF isna(name) THEN name
    ELSE StrCell(Strip(RemoveParenthetical(RemoveProjectSuffix(RemoveProjectPrefix(Strip(Str(name)))))))

\* a variant that keeps every row holding a non-null value, blank or not
is_row_not_empty_any_notna(row) ==
    \E k \in DOMAIN row.cells : ~isna(row.cells[k])

\* is_row_not_empty(row)
is_row_not_empty(row) ==
    \E k \in DOMAIN row.cells :
        ~isna(row.cells[k]) /\ Strip(Str(row.cells[k])) # <<>>

H_PSW_Available_Pct == <<"P","S","W"," ","A","v","a","i","l","a","b","l","e"," ","(","%",")">>
H_Drawing_Available == <<"D","r","a","w","i","n","g"," ","A","v","a","i","l","a","b","l","e">>
H_Managed_By == <<" ","M","a","n","a","g","e","d"," "," ","B","y"," ">>
H_Pct_Complete == <<"%"," ","C","o","m","p","l","e","t","e">>
H_Percent_Done == <<"P","e","r","c","e","n","t"," ","D","o","n","e">>
H_Total_Part_Numbers == <<"T","o","t","a","l"," ","P","a","r","t"," ","N","u","m","b","e","r","s">>
H_Remarks == <<"R","e","m","a","r","k","s">>
V_85 == <<"8","5">>
V_150 == <<"1","5","0">>
V_neg5 == <<"-","5">>
V_half_pct == <<"0",".","5","%">>
V_Complete == <<"C","o","m","p","l","e","t","e">>
V_tbd == <<"t","b","d">>
V_project_alpha == <<"P","r","o","j","e","c","t",":"," ","a","l","p","h","a"," ","(","o","l","d",")">>
V_beta_project == <<"b","e","t","a"," ","-"," ","p","r","o","j","e","c","t">>
V_gamma == <<"g","a","m","m","a","\\","n","r","a","y">>
V_acme == <<"a","c","m","e"," "," ","c","o","r","p">>
V_bob == <<"b","o","b">>

\* The raw status tables of the model: a header row and, per column, the
\* values its cells are drawn from.  Their headers normalise to pairwise
\* different names, and every table has at least one row.
StatusLayouts ==
    { [cols |-> <<N_Project, H_PSW_Available_Pct>>,
       cells |-> << {Null, StrCell(<<>>), StrCell(V_project_alpha), StrCell(V_beta_project)},
                    {Null, StrCell(V_85), IntCell(85), StrCell(<<" ">>)} >>],
      [cols |-> <<N_OEM, H_Drawing_Available>>,
       cells |-> << {Null, StrCell(V_acme), StrCell(<<" ">>)},
                    {Null, StrCell(V_85), StrCell(V_150), StrCell(V_neg5), StrCell(V_tbd)} >>],
      [cols |-> <<H_Managed_By, H_Pct_Complete>>,
       cells |-> << {Null, StrCell(V_bob), StrCell(V_gamma)},
                    {StrCell(V_half_pct), StrCell(V_Complete), IntCell(150), FloatCell(Scale \div 2),
                     StrCell(<<>>)} >>],
      [cols |-> <<H_Total_Part_Numbers, H_Percent_Done>>,
       cells |-> << {Null, IntCell(12), StrCell(<<>>)},
                    {Null, StrCell(T_n_a), IntCell(1), IntCell(100), StrCell(<<"1","0","0","0","%">>)} >>],
      [cols |-> <<H_Remarks>>,
       cells |-> << {Null, StrCell(<<>>), StrCell(V_tbd), IntCell(0)} >>] }

RowsOf(layout) ==
    {cs \in [DOMAIN layout.cols -> UNION Range(layout.cells)] :
        \A j \in DOMAIN layout.cols : cs[j] \in layout.cells[j]}

\* Header rows of status sheets: the names are pairwise different once
\* trimmed, as pandas names the columns of a sheet; some carry surrounding
\* or repeated blanks, some contain several patterns of the dict
H_PSW == <<"P","S","W">>
H_PSW_Available == <<"P","S","W"," ","A","v","a","i","l","a","b","l","e">>
H_oem_name == <<" ","o","e","m"," ","n","a","m","e">>
H_1st_PPAP_Milestone == <<"1","s","t"," ","P","P","A","P"," "," ","M","i","l","e","s","t","o","n","e">>
H_Project_Manager == <<"P","r","o","j","e","c","t"," ","M","a","n","a","g","e","r">>
H_Due_Date == <<"d","u","e"," ","d","a","t","e">>

HeaderSamples ==
    { N_OEM, H_oem_name, H_PSW, H_PSW_Available, H_PSW_Available_Pct, H_Drawing_Available,
      H_1st_PPAP_Milestone, H_Total_Part_Numbers, H_Managed_By, N_Project, H_Project_Manager,
      H_Remarks, H_Due_Date, N_PPAP }

HeaderRows ==
    {<<h>> : h \in HeaderSamples}
       \cup {<<p[1], p[2]>> : p \in {q \in HeaderSamples \X HeaderSamples : q[1] # q[2]}}

\* StatusProcessor(df, logger) on a sheet that has a header row only
InitHeaders ==
    /\ \E cols \in HeaderRows : st_raw = [cols |-> cols, rows |-> <<>>]
    /\ st_fault \in {"none", "headers"}
    /\ st_cols = st_raw.cols
    /\ st_rows = st_raw.rows
    /\ st_pc = "start"
    /\ st_log = <<>>
    /\ st_exc = <<>>
    /\ st_before = <<>>

NormalizerIdle ==
    /\ nz_pc = "idle" /\ nz_in = Null /\ nz_out = Null /\ nz_out2 = Null /\ nz_v = -1

StatusIdle ==
    /\ st_pc = "idle" /\ st_cols = <<>> /\ st_rows = <<>>
    /\ st_raw = [cols |-> <<>>, rows |-> <<>>] /\ st_log = <<>>
    /\ st_fault = "none" /\ st_exc = <<>> /\ st_before = <<>>

\* process(id_col, date_cols=None): the argument date_cols is None or a list
\* of column names; the variable date_cols holds NotGiven or Given(list)
NotGiven == <<>>
Given(names) == <<names>>

PartsIdle ==
    /\ df_pc = "idle" /\ df_cols = <<>> /\ df_rows = <<>>
    /\ id_column = <<>> /\ project_columns = <<>>
    /\ plant_item_status = <<>> /\ fact_parts = <<>> /\ masterbom_clean = <<>>
    /\ p_log = <<>> /\ date_cols = NotGiven

\* The place of a run where a called operation raises an exception: nowhere,
\* in the body of one of the five stages, or (pct_column) in the conversion
\* of one percentage column, which has an exception handler of its own.
StatusFaults == {"none", "headers", "text", "pct_column", "pct", "project", "rows"}

\* StatusProcessor(df, logger): the processor works on a copy of the raw table
InitStatus ==
    /\ \E layout \in StatusLayouts : \E k \in 1..MaxStatusRows :
          \E rs \in [1..k -> RowsOf(layout)] :
             \* pandas labels the rows 0, 1, ... when the sheet is read
             st_raw = [cols |-> layout.cols, rows |-> [r \in 1..k |-> Row(r - 1, rs[r])]]
    /\ st_fault \in StatusFaults
    /\ st_cols = st_raw.cols
    /\ st_rows = st_raw.rows
    /\ st_pc = "start"
    /\ st_log = <<>>
    /\ st_exc = <<>>
    /\ st_before = <<>>

\* process(): except Exception as e: logger.error(...); raise
ProcessRaised(stage, messages) ==
    /\ st_log' = st_log \o messages \o <<"error: Error in status processing">>
    /\ st_exc' = Append(st_exc, stage)
    /\ st_pc' = "raised"

\* Step 1: _clean_headers
CleanHeaders ==
    /\ st_pc = "start"
    /\ IF st_fault = "headers"
       THEN /\ ProcessRaised("headers", <<"Starting Status sheet processing",
                                          "Step 1: Cleaning headers">>)
            /\ UNCHANGED st_cols
       ELSE /\ st_cols' = [j \in DOMAIN st_cols |-> clean_header(st_cols[j])]
            /\ st_log' = st_log \o <<"Starting Status sheet processing",
                                     "Step 1: Cleaning headers", "Cleaned column headers">>
            /\ st_pc' = "headers"
            /\ UNCHANGED st_exc
    /\ UNCHANGED <<st_rows, st_raw, st_fault, st_before>>
    /\ UNCHANGED <<nzVars, dfVars, ddVars, swVars, runVars, ordVars, ccVars>>

\* the table after standardize_text on each present column of the allow-list
RECURSIVE StandardizeColumns(_, _, _)
StandardizeColumns(cols, rows, names) ==
    IF names = <<>> THEN rows
    ELSE LET js == ColumnsNamed(cols, Head(names))
             next == IF js = {} THEN rows
                     ELSE MapColumn(rows, CHOOSE j \in js : TRUE, standardize_text_value)
         IN StandardizeColumns(cols, next, Tail(names))

\* Step 2: _standardize_text_columns; an exception at a column (here the
\* first present one) is logged as an error and raised again
StandardizeTextColumns ==
    /\ st_pc = "headers"
    /\ IF st_fault = "text" /\ \E k \in DOMAIN text_columns : ColumnsNamed(st_cols, text_columns[k]) # {}
       THEN /\ ProcessRaised("text", <<"Step 2: Standardizing text columns",
                                       "Standardizing column",
                                       "error: Error standardizing column">>)
            /\ UNCHANGED st_rows
       ELSE /\ st_rows' = StandardizeColumns(st_cols, st_rows, text_columns)
            /\ st_log' = st_log \o <<"Step 2: Standardizing text columns",
                                     "Standardized text columns">>
            /\ st_pc' = "text"
            /\ UNCHANGED st_exc
    /\ UNCHANGED <<st_cols, st_raw, st_fault, st_before>>
    /\ UNCHANGED <<nzVars, dfVars, ddVars, swVars, runVars, ordVars, ccVars>>

\* df[col] = parse_value(df[col]) for the columns whose name suggests percentages
convert_percentage_cell(col, c) == IF is_percentage(col) THEN parse_value(c) ELSE c

\* the percentage column whose conversion raises (the first one), 0 when none does
FailingPercentageColumn ==
    LET pcts == {j \in DOMAIN st_cols : is_percentage(st_cols[j])}
    IN IF st_fault = "pct_column" /\ pcts # {}
       THEN CHOOSE j \in pcts : \A k \in pcts : j <= k
       ELSE 0

\* Step 3: _convert_percentage_columns.  The conversion of each column is in
\* a try of its own whose handler logs a warning and goes on to the next
\* column; an exception outside it is logged as an error and raised again.
ConvertPercentageColumns ==
    /\ st_pc = "text"
    /\ IF st_fault = "pct"
       THEN /\ ProcessRaised("pct", <<"Step 3: Converting percentage columns",
                                      "error: Error in percentage conversion">>)
            /\ UNCHANGED st_rows
       ELSE /\ st_rows' = [r \in DOMAIN st_rows |->
                            Row(st_rows[r].index,
                                [j \in DOMAIN st_cols |->
                                    IF j = FailingPercentageColumn
                                    THEN st_rows[r].cells[j]
                                    ELSE convert_percentage_cell(st_cols[j], st_rows[r].cells[j])])]
            /\ st_log' = st_log \o <<"Step 3: Converting percentage columns">>
                           \o (IF FailingPercentageColumn # 0
                               THEN <<"warning: Failed to convert percentage column">>
                               ELSE <<>>)
                           \o <<"Converted percentage columns">>
            /\ st_exc' = IF FailingPercentageColumn # 0 THEN Append(st_exc, "pct") ELSE st_exc
            /\ st_pc' = "pct"
    /\ UNCHANGED <<st_cols, st_raw, st_fault, st_before>>
    /\ UNCHANGED <<nzVars, dfVars, ddVars, swVars, runVars, ordVars, ccVars>>

\* Step 4: _clean_project_names; its handler logs a warning and returns
CleanProjectNames ==
    /\ st_pc = "pct"
    /\ LET js == ColumnsNamed(st_cols, N_Project)
       IN IF st_fault = "project"
          THEN /\ st_rows' = st_rows
               /\ st_log' = st_log \o <<"Step 4: Cleaning project names",
                                        "warning: Failed to clean project names">>
               /\ st_exc' = Append(st_exc, "project")
          ELSE IF js # {}
          THEN /\ st_rows' = MapColumn(st_rows, CHOOSE j \in js : TRUE, clean_project)
               /\ st_log' = st_log \o <<"Step 4: Cleaning project names", "Cleaned project names">>
               /\ UNCHANGED st_exc
          ELSE /\ st_rows' = st_rows
               /\ st_log' = st_log \o <<"Step 4: Cleaning project names">>
               /\ UNCHANGED st_exc
    /\ st_pc' = "project"
    /\ UNCHANGED <<st_cols, st_raw, st_fault, st_before>>
    /\ UNCHANGED <<nzVars, dfVars, ddVars, swVars, runVars, ordVars, ccVars>>

\* Step 5: _remove_empty_rows, then process() returns the table.  st_before
\* keeps the table as the stage received it.
RemoveEmptyRows ==
    /\ st_pc = "project"
    /\ st_before' = st_rows
    /\ IF st_fault = "rows"
       THEN /\ ProcessRaised("rows", <<"Step 5: Removing empty rows",
                                       "error: Error removing empty rows">>)
            /\ UNCHANGED st_rows
       ELSE /\ st_rows' = SelectSeq(st_rows, is_row_not_empty)
            /\ st_log' = st_log \o <<"Step 5: Removing empty rows">>
                           \o (IF Len(SelectSeq(st_rows, is_row_not_empty)) < Len(st_rows)
                               THEN <<"Removed empty rows">> ELSE <<>>)
                           \o <<"Status sheet processing complete">>
            /\ st_pc' = "done"
            /\ UNCHANGED st_exc
    /\ UNCHANGED <<st_cols, st_raw, st_fault>>
    /\ UNCHANGED <<nzVars, dfVars, ddVars, swVars, runVars, ordVars, ccVars>>

----------------------------------------------------------------------------
(* masterbom_rules.MasterBOMProcessor *)

C_part_id_raw == <<"p","a","r","t","_","i","d","_","r","a","w">>
C_part_id_std == <<"p","a","r","t","_","i","d","_","s","t","d">>
C_Item_Description == <<"I","t","e","m"," ","D","e","s","c","r","i","p","t","i","o","n">>
C_Supplier_Name == <<"S","u","p","p","l","i","e","r"," ","N","a","m","e">>
C_Original_Supplier_Name == <<"O","r","i","g","i","n","a","l"," ","S","u","p","p","l","i","e","r"," ","N","a","m","e">>
C_Part_Specification == <<"P","a","r","t"," ","S","p","e","c","i","f","i","c","a","t","i","o","n">>
C_Supplier_PN == <<"S","u","p","p","l","i","e","r"," ","P","N">>
C_PSW == <<"P","S","W">>
C_PSW_Type == <<"P","S","W"," ","T","y","p","e">>
C_PSW_Sub_Type == <<"P","S","W"," ","S","u","b"," ","T","y","p","e">>
C_YPN_Status == <<"Y","P","N"," ","S","t","a","t","u","s">>
C_Handling_Manual == <<"H","a","n","d","l","i","n","g"," ","M","a","n","u","a","l">>
C_IMDS_STATUS == <<"I","M","D","S"," ","S","T","A","T","U","S"," ","(","Y","e","s",","," ","N","o",","," ","N","/","A",")">>
C_FAR_Status == <<"F","A","R"," ","S","t","a","t","u","s">>
C_PPAP_Details == <<"P","P","A","P"," ","D","e","t","a","i","l","s">>
T_item == <<"i","t","e","m">>
T_desc == <<"d","e","s","c">>
T_ok == <<"o","k">>
T_yes == <<"y","e","s">>

\* process(id_col="YAZAKI PN", date_cols=None): the identifier column asked for
id_col == <<"Y","A","Z","A","K","I"," ","P","N">>

\* position of the first column called name (columns.index(name))
FirstIndex(cols, name) ==
    CHOOSE j \in DOMAIN cols : cols[j] = name /\ \A k \in 1..(j - 1) : cols[k] # name

\* df[name] of one row
Cell(cols, row, name) == row.cells[FirstIndex(cols, name)]

\* df[name] = f(row) for every row: a new column is appended, an existing
\* one is overwritten
SetColumn(cols, rows, name, f(_)) ==
    IF \E j \in DOMAIN cols : cols[j] = name
    THEN [r \in DOMAIN rows |->
            Row(rows[r].index, [k \in DOMAIN cols |->
                IF k = FirstIndex(cols, name) THEN f(rows[r]) ELSE rows[r].cells[k]])]
    ELSE [r \in DOMAIN rows |-> Row(rows[r].index, Append(rows[r].cells, f(rows[r])))]

SetColumnNames(cols, name) ==
    IF \E j \in DOMAIN cols : cols[j] = name THEN cols ELSE Append(cols, name)

\* the elements of seq at the positions of keep, in order
RECURSIVE PickFrom(_, _, _)
PickFrom(seq, keep, k) ==
    IF k > Len(seq) THEN <<>>
    ELSE (IF k \in keep THEN <<seq[k]>> ELSE <<>>) \o PickFrom(seq, keep, k + 1)

\* mutant: drop_duplicates(keep='last')
FirstOccurrences_keep_last(keys) ==
    {i \in DOMAIN keys : \A j \in (i + 1)..Len(keys) : keys[j] # keys[i]}

\* DataFrame.drop_duplicates keeps, of the rows with equal keys, the first
FirstOccurrences(keys) ==
    {i \in DOMAIN keys : \A j \in 1..(i - 1) : keys[j] # keys[i]}

\* a variant that takes the last matching column
find_id_column_last_match(columns) ==
    LET hits == {j \in DOMAIN columns : Upper(Strip(columns[j])) = Upper(id_col)}
    IN IF hits # {} THEN columns[CHOOSE j \in hits : \A k \in hits : j >= k]
       ELSE columns[1]

\* the identifier column: the first column whose stripped, upper-cased name is
\* id_col.upper(), else the first column
find_id_column(columns) ==
    LET hits == {j \in DOMAIN columns : Upper(Strip(columns[j])) = Upper(id_col)}
    IN IF hits # {} THEN columns[CHOOSE j \in hits : \A k \in hits : j <= k]
       ELSE columns[1]

id_column_found(columns) ==
    \E j \in DOMAIN columns : Upper(Strip(columns[j])) = Upper(id_col)

\* a variant that takes the description column as a project column too
find_project_columns_through_desc(columns, idc) ==
    LET id_idx == FirstIndex(columns, idc)
        descs == {i \in (id_idx + 1)..Len(columns) :
                     Contains(Lower(columns[i]), T_item) /\ Contains(Lower(columns[i]), T_desc)}
        desc_idx == IF descs # {} THEN CHOOSE i \in descs : \A k \in descs : i <= k
                    ELSE Len(columns)
    IN SubSeq(columns, id_idx + 1, desc_idx)

\* the columns after the identifier column, up to the first one whose
\* lower-cased name contains 'item' and 'desc'
find_project_columns(columns, idc) ==
    LET id_idx == FirstIndex(columns, idc)
        descs == {i \in (id_idx + 1)..Len(columns) :
                     Contains(Lower(columns[i]), T_item) /\ Contains(Lower(columns[i]), T_desc)}
        desc_idx == IF descs # {} THEN CHOOSE i \in descs : \A k \in descs : i <= k
                    ELSE Len(columns) + 1
    IN SubSeq(columns, id_idx + 1, desc_idx - 1)

\* _classify_status(row)
classify_status(row) ==
    LET raw_status == Upper(Strip(Str(row.raw_status)))
    IN IF raw_status = <<"X">> THEN "active"
       ELSE IF raw_status = <<"D">> THEN "inactive"
       ELSE IF raw_status = <<"0">> THEN "duplicate"
       ELSE IF raw_status \in {<<>>, <<"N","A","N">>, <<"N","O","N","E">>} THEN "new"
       ELSE "new"

\* mutant: every row classified duplicate is a confirmed duplicate
check_duplicate_any(cols, rows, row) == row.status_class = "duplicate"

\* _check_duplicate(row): counts the rows of self.df with the row's part_id_std
check_duplicate(cols, rows, row) ==
    IF row.status_class = "duplicate"
    THEN Cardinality({r \in DOMAIN rows :
                         Cell(cols, rows[r], C_part_id_std) = row.part_id_std}) > 1
    ELSE FALSE

ZeroCounts == [active |-> 0, inactive |-> 0, new |-> 0, duplicate |-> 0]

\* mutant: the counts are taken over the whole table, not per part
RECURSIVE calculate_plant_counts_ungrouped(_, _)
calculate_plant_counts_ungrouped(melted, k) ==
    IF k = 0 THEN [id \in {} |-> ZeroCounts]
    ELSE LET prev == calculate_plant_counts_ungrouped(melted, k - 1)
             row == melted[k]
             ids == DOMAIN prev \cup {row.part_id_std}
         IN [id \in ids |->
                LET old == IF DOMAIN prev = {} THEN ZeroCounts
                           ELSE prev[CHOOSE x \in DOMAIN prev : TRUE]
                IN [old EXCEPT ![row.status_class] = @ + 1]]

\* _calculate_plant_counts: groupby('part_id_std')['status_class'].value_counts()
\* unstacked with 0 for a class that does not occur, over the first k rows
RECURSIVE calculate_plant_counts(_, _)
calculate_plant_counts(melted, k) ==
    IF k = 0 THEN [id \in {} |-> ZeroCounts]
    ELSE LET prev == calculate_plant_counts(melted, k - 1)
             row == melted[k]
             old == IF row.part_id_std \in DOMAIN prev THEN prev[row.part_id_std] ELSE ZeroCounts
         IN [id \in DOMAIN prev \cup {row.part_id_std} |->
                IF id = row.part_id_std THEN [old EXCEPT ![row.status_class] = @ + 1]
                ELSE prev[id]]

\* a variant that gives a table without rows one null row per plant column
melt_null_row_per_plant(cols, rows, idc, plants) ==
    IF rows = <<>>
    THEN [n \in 1..Len(plants) |->
            [index |-> n - 1,
             part_id_std |-> StrCell(<<>>),
             part_id_raw |-> StrCell(<<>>),
             id_value |-> Null,
             project_plant |-> plants[n],
             raw_status |-> Null]]
    ELSE [n \in 1..(Len(plants) * Len(rows)) |->
            LET p == ((n - 1) \div Len(rows)) + 1
                r == ((n - 1) % Len(rows)) + 1
            IN [index |-> n - 1,
                part_id_std |-> Cell(cols, rows[r], C_part_id_std),
                part_id_raw |-> Cell(cols, rows[r], C_part_id_raw),
                id_value |-> Cell(cols, rows[r], idc),
                project_plant |-> plants[p],
                raw_status |-> Cell(cols, rows[r], plants[p])]]

\* pd.melt: for each plant column in turn, one row per row of the table
melt(cols, rows, idc, plants) ==
    [n \in 1..(Len(plants) * Len(rows)) |->
        LET p == ((n - 1) \div Len(rows)) + 1
            r == ((n - 1) % Len(rows)) + 1
        IN [index |-> n - 1,
            part_id_std |-> Cell(cols, rows[r], C_part_id_std),
            part_id_raw |-> Cell(cols, rows[r], C_part_id_raw),
            id_value |-> Cell(cols, rows[r], idc),
            project_plant |-> plants[p],
            raw_status |-> Cell(cols, rows[r], plants[p])]]

\* _create_plant_item_status
create_plant_item_status(cols, rows, idc, plants) ==
    IF plants = <<>> THEN <<>>
    ELSE LET melted == melt(cols, rows, idc, plants)
             classified == [n \in DOMAIN melted |->
                 [index |-> melted[n].index,
                  part_id_std |-> melted[n].part_id_std,
                  part_id_raw |-> melted[n].part_id_raw,
                  id_value |-> melted[n].id_value,
                  project_plant |-> melted[n].project_plant,
                  raw_status |-> melted[n].raw_status,
                  status_class |-> classify_status(melted[n])]]
             plant_counts == calculate_plant_counts(classified, Len(classified))
         IN [n \in DOMAIN classified |->
                LET row == classified[n]
                    c == plant_counts[row.part_id_std]
                IN [index |-> row.index,
                    part_id_std |-> row.part_id_std,
                    part_id_raw |-> row.part_id_raw,
                    id_value |-> row.id_value,
                    project_plant |-> row.project_plant,
                    raw_status |-> row.raw_status,
                    status_class |-> row.status_class,
                    is_duplicate |-> check_duplicate(cols, rows, row),
                    is_new |-> row.status_class = "new",
                    notes |-> Null,
                    n_active |-> c.active,
                    n_inactive |-> c.inactive,
                    n_new |-> c.new,
                    n_duplicate |-> c.duplicate]]

business_cols ==
    <<C_Item_Description, C_Supplier_Name, C_Supplier_PN, C_PSW, C_PSW_Type,
      C_PSW_Sub_Type, C_YPN_Status, C_Handling_Manual, C_IMDS_STATUS, C_FAR_Status,
      C_PPAP_Details>>

HasColumn(cols, name) == \E j \in DOMAIN cols : cols[j] = name

\* Series.str.contains(word, case=False, na=False)
StrContains(c, word) == c.t = "str" /\ Contains(Lower(c.s), word)

\* _create_fact_parts: the selected columns of the first row of each part_id_std,
\* with the flags whose source column exists
create_fact_parts(cols, rows) ==
    LET fact_cols == <<C_part_id_std, C_part_id_raw>>
                        \o SelectSeq(business_cols, LAMBDA c : HasColumn(cols, c))
        keys == [r \in DOMAIN rows |-> Cell(cols, rows[r], C_part_id_std)]
        kept == PickFrom(rows, FirstOccurrences(keys), 1)
        flagged == {<<"psw_ok", C_PSW>>, <<"has_handling_manual", C_Handling_Manual>>,
                    <<"far_ok", C_FAR_Status>>, <<"imds_ok", C_IMDS_STATUS>>}
        flag_names == {f[1] : f \in {g \in flagged : HasColumn(cols, g[2])}}
    IN [r \in DOMAIN kept |->
          [index |-> kept[r].index,
           columns |-> fact_cols,
           cells |-> [k \in DOMAIN fact_cols |-> Cell(cols, kept[r], fact_cols[k])],
           flags |-> [f \in flag_names |->
              CASE f = "psw_ok" ->
                     ~isna(Cell(cols, kept[r], C_PSW))
                        /\ Cell(cols, kept[r], C_PSW) # StrCell(<<>>)
                [] f = "has_handling_manual" -> ~isna(Cell(cols, kept[r], C_Handling_Manual))
                [] f = "far_ok" -> StrContains(Cell(cols, kept[r], C_FAR_Status), T_ok)
                [] f = "imds_ok" -> StrContains(Cell(cols, kept[r], C_IMDS_STATUS), T_yes)]]]

\* _finalize_masterbom: drop_duplicates() over all the columns
finalize_masterbom(rows) ==
    PickFrom(rows, FirstOccurrences([r \in DOMAIN rows |-> rows[r].cells]), 1)

H_yazaki_pn == <<" ","Y","a","z","a","k","i"," ","p","n"," ">>
H_yazaki_pn_lower == <<"y","a","z","a","k","i"," ","p","n">>
H_Part_No == <<"P","a","r","t"," ","N","o">>
H_Plant_A == <<"P","l","a","n","t"," ","A">>
H_Plant_B == <<"P","l","a","n","t"," ","B">>
H_Item_Desc == <<"I","T","E","M"," ","D","E","S","C",".">>
V_a1 == <<"a","1">>
V_A1_sp == <<" ","A","1">>
V_a_at_1 == <<"a","@","1">>
V_b_2 == <<"b","_","2">>
V_x_sp == <<"x"," ">>
V_widget == <<"b","l","u","e"," "," ","w","i","d","g","e","t">>
V_ok == <<"o","k">>

\* The raw parts tables of the model: a header row and, per column, the
\* values its cells are drawn from.  Column names are pairwise different,
\* no column is a date column, and every table has at least one row.
PartsLayouts ==
    { [cols |-> <<H_yazaki_pn, H_Plant_A, C_Item_Description>>,
       cells |-> << {StrCell(V_a1), StrCell(V_A1_sp), StrCell(V_b_2), Null},
                    {StrCell(<<"X">>), StrCell(V_x_sp), StrCell(<<"D">>), StrCell(<<"0">>),
                     StrCell(<<"Y">>), Null},
                    {StrCell(V_widget)} >>],
      [cols |-> <<id_col, H_Plant_A, H_Plant_B>>,
       cells |-> << {StrCell(V_a1), StrCell(V_a_at_1), StrCell(V_b_2)},
                    {StrCell(<<"X">>), StrCell(<<"0">>), StrCell(<<>>)},
                    {StrCell(<<"d">>), IntCell(0), Null} >>],
      [cols |-> <<H_Part_No, H_Plant_A, H_Item_Desc, C_PSW>>,
       cells |-> << {StrCell(V_a1), IntCell(7009)},
                    {StrCell(<<"X">>), StrCell(<<"0">>)},
                    {Null},
                    {StrCell(V_ok), StrCell(<<>>), Null} >>],
      [cols |-> <<id_col, C_Item_Description, C_Supplier_Name>>,
       cells |-> << {StrCell(V_a1), StrCell(V_A1_sp)},
                    {StrCell(V_widget), Null},
                    {StrCell(V_acme)} >>],
      \* two columns match the identifier name; a column stands before them
      [cols |-> <<H_Plant_B, H_yazaki_pn_lower, id_col, C_Item_Description>>,
       cells |-> << {StrCell(<<"X">>)},
                    {StrCell(V_a1), StrCell(V_b_2)},
                    {StrCell(<<"X">>), StrCell(<<"0">>)},
                    {StrCell(V_widget)} >>] }

\* MasterBOMProcessor(df, logger): the processor works on a copy of the raw
\* table; a sheet may hold a header and no rows, or nothing at all
InitParts ==
    /\ \/ \E layout \in PartsLayouts : \E k \in 0..MaxRows :
             \E rs \in [1..k -> RowsOf(layout)] :
                /\ df_cols = layout.cols
                /\ df_rows = [r \in 1..k |-> Row(r - 1, rs[r])]
       \/ df_cols = <<>> /\ df_rows = <<>>
    /\ df_pc = "start"
    /\ id_column = <<>>
    /\ project_columns = <<>>
    /\ plant_item_status = <<>>
    /\ fact_parts = <<>>
    /\ masterbom_clean = <<>>
    /\ p_log = <<>>
    /\ date_cols = Given(<<>>)

\* Step 1: _clean_column_names
CleanColumnNames ==
    /\ df_pc = "start"
    /\ df_cols' = [j \in DOMAIN df_cols |-> Strip(df_cols[j])]
    /\ p_log' = p_log \o <<"Starting MasterBOM processing", "Cleaned column names">>
    /\ df_pc' = "named"
    /\ UNCHANGED <<df_rows, id_column, project_columns, plant_item_status, fact_parts,
                   masterbom_clean>>
    /\ UNCHANGED date_cols
    /\ UNCHANGED <<nzVars, stVars, ddVars, swVars, runVars, ordVars, ccVars>>

\* Step 2: _identify_columns.  With no matching column a warning is logged
\* and columns[0] is taken: on a table without columns that raises IndexError,
\* which process() does not catch.
IdentifyColumns ==
    /\ df_pc = "named"
    /\ IF df_cols = <<>>
       THEN /\ p_log' = p_log \o <<"warning: ID column not found, using first column">>
            /\ df_pc' = "failed"
            /\ UNCHANGED <<id_column, project_columns>>
       ELSE /\ id_column' = find_id_column(df_cols)
            /\ project_columns' = find_project_columns(df_cols, find_id_column(df_cols))
            /\ p_log' = p_log \o (IF id_column_found(df_cols) THEN <<>>
                                  ELSE <<"warning: ID column not found, using first column">>)
                              \o <<"Identified columns">>
            /\ df_pc' = "identified"
    /\ UNCHANGED <<df_cols, df_rows, plant_item_status, fact_parts, masterbom_clean>>
    /\ UNCHANGED date_cols
    /\ UNCHANGED <<nzVars, stVars, ddVars, swVars, runVars, ordVars, ccVars>>

\* Step 3: _clean_id_column
CleanIdColumn ==
    /\ df_pc = "identified"
    /\ LET cols1 == SetColumnNames(df_cols, C_part_id_raw)
           rows1 == SetColumn(df_cols, df_rows, C_part_id_raw,
                              LAMBDA row : StrCell(Str(Cell(df_cols, row, id_column))))
       IN /\ df_cols' = SetColumnNames(cols1, C_part_id_std)
          /\ df_rows' = SetColumn(cols1, rows1, C_part_id_std,
                                  LAMBDA row : StrCell(clean_id(Cell(cols1, row, id_column))))
    /\ p_log' = p_log \o <<"Cleaned ID column">>
    /\ df_pc' = "ids"
    /\ UNCHANGED <<id_column, project_columns, plant_item_status, fact_parts, masterbom_clean>>
    /\ UNCHANGED date_cols
    /\ UNCHANGED <<nzVars, stVars, ddVars, swVars, runVars, ordVars, ccVars>>

parts_text_columns ==
    <<C_Supplier_Name, C_Original_Supplier_Name, C_Item_Description, C_Part_Specification>>

\* Step 5: _standardize_text_columns
StandardizePartsText ==
    /\ df_pc = "dates"
    /\ df_rows' = StandardizeColumns(df_cols, df_rows, parts_text_columns)
    /\ p_log' = p_log \o <<"Standardized text columns">>
    /\ df_pc' = "text"
    /\ UNCHANGED <<df_cols, id_column, project_columns, plant_item_status, fact_parts,
                   masterbom_clean>>
    /\ UNCHANGED date_cols
    /\ UNCHANGED <<nzVars, stVars, ddVars, swVars, runVars, ordVars, ccVars>>

\* Step 6: _create_plant_item_status
CreatePlantItemStatus ==
    /\ df_pc = "text"
    /\ plant_item_status' = create_plant_item_status(df_cols, df_rows, id_column, project_columns)
    /\ p_log' = p_log \o (IF project_columns = <<>>
                          THEN <<"warning: No project columns found for normalization">>
                          ELSE <<"Created plant-item-status table">>)
    /\ df_pc' = "pis"
    /\ UNCHANGED <<df_cols, df_rows, id_column, project_columns, fact_parts, masterbom_clean>>
    /\ UNCHANGED date_cols
    /\ UNCHANGED <<nzVars, stVars, ddVars, swVars, runVars, ordVars, ccVars>>

\* Step 7: _create_fact_parts
CreateFactParts ==
    /\ df_pc = "pis"
    /\ fact_parts' = create_fact_parts(df_cols, df_rows)
    /\ p_log' = p_log \o <<"Created fact parts table">>
    /\ df_pc' = "fact"
    /\ UNCHANGED <<df_cols, df_rows, id_column, project_columns, plant_item_status,
                   masterbom_clean>>
    /\ UNCHANGED date_cols
    /\ UNCHANGED <<nzVars, stVars, ddVars, swVars, runVars, ordVars, ccVars>>

\* Step 8: _finalize_masterbom, then process() returns the three tables
FinalizeMasterbom ==
    /\ df_pc = "fact"
    /\ masterbom_clean' = finalize_masterbom(df_rows)
    /\ p_log' = p_log \o (IF Len(finalize_masterbom(df_rows)) < Len(df_rows)
                          THEN <<"Removed duplicate rows">> ELSE <<>>)
                      \o <<"MasterBOM processing complete">>
    /\ df_pc' = "done"
    /\ UNCHANGED <<df_cols, df_rows, id_column, project_columns, plant_item_status, fact_parts>>
    /\ UNCHANGED date_cols
    /\ UNCHANGED <<nzVars, stVars, ddVars, swVars, runVars, ordVars, ccVars>>

----------------------------------------------------------------------------
(* cleaning.create_dim_dates and cleaning.detect_date_columns, with the      *)
(* collection of the date columns in routes_transform.transform_data         *)

T_date == <<"d","a","t","e">>
T_time == <<"t","i","m","e">>
T_approved == <<"a","p","p","r","o","v","e","d">>
T_promised == <<"p","r","o","m","i","s","e","d">>
T_created == <<"c","r","e","a","t","e","d">>
T_updated == <<"u","p","d","a","t","e","d">>
T_modified == <<"m","o","d","i","f","i","e","d">>
T_sop == <<"s","o","p">>
T_milestone == <<"m","i","l","e","s","t","o","n","e">>

date_patterns ==
    <<T_date, T_time, T_approved, T_promised, T_created, T_updated, T_modified, T_sop,
      T_milestone>>

\* a calendar date; NaT is what pd.to_datetime(errors='coerce') gives for a
\* value that is no date
NaT == [year |-> 0, month |-> 0, day |-> 0]

IsLeapYear(y) == (y % 4 = 0 /\ y % 100 # 0) \/ y % 400 = 0

DaysInMonth(y, m) ==
    IF m = 2 THEN (IF IsLeapYear(y) THEN 29 ELSE 28)
    ELSE IF m \in {4, 6, 9, 11} THEN 30 ELSE 31

IsIsoDateText(s) ==
    /\ Len(s) = 10
    /\ s[5] = "-" /\ s[8] = "-"
    /\ \A i \in {1, 2, 3, 4, 6, 7, 9, 10} : IsDigit(s[i])

\* pd.to_datetime(series, errors='coerce') at one cell.  The date columns of
\* the model hold null or text; a text is a date when it reads YYYY-MM-DD and
\* names a day of the calendar within the range of a nanosecond timestamp.
to_datetime(c) ==
    IF c.t = "date"
    THEN [year |-> c.n \div 10000, month |-> (c.n \div 100) % 100, day |-> c.n % 100]
    ELSE IF c.t # "str" \/ ~IsIsoDateText(c.s) THEN NaT
    ELSE LET y == DigitsVal(SubSeq(c.s, 1, 4))
             m == DigitsVal(SubSeq(c.s, 6, 7))
             d == DigitsVal(SubSeq(c.s, 9, 10))
         IN IF y \in 1678..2261 /\ m \in 1..12 /\ d \in 1..DaysInMonth(y, m)
            THEN [year |-> y, month |-> m, day |-> d]
            ELSE NaT

\* one entry of all_dates (week, weekday and the two names are left out)
DimRow(d, role) ==
    [date |-> d, role |-> role, year |-> d.year, month |-> d.month, day |-> d.day,
     quarter |-> ((d.month - 1) \div 3) + 1]

\* df[name]: the cells of the column called name
Column(df, name) ==
    [r \in DOMAIN df.rows |-> df.rows[r].cells[FirstIndex(df.cols, name)]]

\* for series, col_name in zip(date_columns, column_names): one entry per
\* value that parses
RECURSIVE all_dates(_, _)
all_dates(date_columns, column_names) ==
    IF date_columns = <<>> \/ column_names = <<>> THEN <<>>
    ELSE LET series == Head(date_columns)
             parsed_dates == [i \in DOMAIN series |-> to_datetime(series[i])]
             valid_dates == SelectSeq(parsed_dates, LAMBDA d : d # NaT)
         IN [i \in DOMAIN valid_dates |-> DimRow(valid_dates[i], Head(column_names))]
               \o all_dates(Tail(date_columns), Tail(column_names))

\* a variant that removes duplicates by date alone
dim_key_date_only(row) == <<row.date>>

\* drop_duplicates(subset=['date', 'role'])
dim_key(row) == <<row.date, row.role>>

\* create_dim_dates: an empty table when no value parses
create_dim_dates(date_columns, column_names) ==
    LET all == all_dates(date_columns, column_names)
    IN PickFrom(all, FirstOccurrences([i \in DOMAIN all |-> dim_key(all[i])]), 1)

is_date_name(col) ==
    \E k \in DOMAIN date_patterns : Contains(Lower(col), date_patterns[k])

\* Series.head(10)
Head10(series) == SubSeq(series, 1, IF Len(series) < 10 THEN Len(series) ELSE 10)

\* sample = df[col].dropna().head(10); valid_ratio > 0.5
looks_like_dates(series) ==
    LET sample == Head10(SelectSeq(series, LAMBDA c : ~isna(c)))
        valid == Len(SelectSeq(sample, LAMBDA c : to_datetime(c) # NaT))
    IN Len(sample) > 0 /\ 2 * valid > Len(sample)

detect_date_columns(df) ==
    SelectSeq(df.cols, LAMBDA col : is_date_name(col) /\ looks_like_dates(Column(df, col)))

\* a datetime.date value of a derived column
DateCell(d) == [t |-> "date", s |-> <<>>, n |-> (d.year * 100 + d.month) * 100 + d.day]

\* date.toordinal() of 1 January of year y, less one
DaysBeforeYear(y) == LET p == y - 1 IN p * 365 + p \div 4 - p \div 100 + p \div 400

RECURSIVE DaysBeforeMonth(_, _)
DaysBeforeMonth(y, m) ==
    IF m = 1 THEN 0 ELSE DaysBeforeMonth(y, m - 1) + DaysInMonth(y, m - 1)

DayOfYear(d) == DaysBeforeMonth(d.year, d.month) + d.day

\* date.isoweekday(): Monday is 1, Sunday 7
IsoWeekday(d) == ((DaysBeforeYear(d.year) + DayOfYear(d) - 1) % 7) + 1

WeeksInYear(y) ==
    LET jan1 == IsoWeekday([year |-> y, month |-> 1, day |-> 1])
    IN IF jan1 = 4 \/ (IsLeapYear(y) /\ jan1 = 3) THEN 53 ELSE 52

\* dt.isocalendar().week
IsoWeek(d) ==
    LET w == (DayOfYear(d) - IsoWeekday(d) + 10) \div 7
    IN IF w < 1 THEN WeeksInYear(d.year - 1)
       ELSE IF w > WeeksInYear(d.year) THEN 1 ELSE w

\* the derived columns of parse_date_column, in the order it creates them
date_suffixes ==
    << <<"_","d","a","t","e">>, <<"_","y","e","a","r">>, <<"_","m","o","n","t","h">>,
       <<"_","d","a","y">>, <<"_","q","t","r">>, <<"_","w","e","e","k">> >>

\* a value of an integer field of the .dt accessor: the column is int32 when
\* every value parsed, float64 with NaN otherwise
DtField(n, any_nat) == IF any_nat THEN FloatCell(n * Scale) ELSE IntCell(n)

\* the value of the k-th derived column for the parsed date d
derived_date_value(k, d, any_nat) ==
    IF d = NaT THEN Null
    ELSE CASE k = 1 -> DateCell(d)
           [] k = 2 -> DtField(d.year, any_nat)
           [] k = 3 -> DtField(d.month, any_nat)
           [] k = 4 -> DtField(d.day, any_nat)
           [] k = 5 -> DtField(((d.month - 1) \div 3) + 1, any_nat)
           [] k = 6 -> IntCell(IsoWeek(d))

\* parse_date_column(series, col_name): the six derived columns of the series
parse_date_column(series) ==
    LET any_nat == \E r \in DOMAIN series : to_datetime(series[r]) = NaT
    IN [k \in DOMAIN date_suffixes |->
           [r \in DOMAIN series |-> derived_date_value(k, to_datetime(series[r]), any_nat)]]

\* self.df[new_col] = date_df[new_col] for the derived columns k, k + 1, ...
\* of the column col
RECURSIVE add_date_fields(_, _, _, _, _)
add_date_fields(df, date_df, col, k, row_no) ==
    IF k > Len(date_suffixes) THEN df
    ELSE add_date_fields(
            [cols |-> SetColumnNames(df.cols, col \o date_suffixes[k]),
             rows |-> SetColumn(df.cols, df.rows, col \o date_suffixes[k],
                                LAMBDA row : date_df[k][row_no[row.index]])],
            date_df, col, k + 1, row_no)

\* _process_date_columns(date_cols): the requested columns that the table
\* has, one after the other
RECURSIVE process_date_columns(_, _)
process_date_columns(df, names) ==
    IF names = <<>> THEN df
    ELSE IF ~HasColumn(df.cols, Head(names)) THEN process_date_columns(df, Tail(names))
    ELSE LET row_no == [i \in {df.rows[r].index : r \in DOMAIN df.rows} |->
                          CHOOSE r \in DOMAIN df.rows : df.rows[r].index = i]
         IN process_date_columns(
               add_date_fields(df, parse_date_column(Column(df, Head(names))),
                               Head(names), 1, row_no),
               Tail(names))

\* Step 4 of MasterBOMProcessor.process: date_cols = detect_date_columns(self.df)
\* when the argument is None, then _process_date_columns(date_cols)
ProcessDateColumns ==
    /\ df_pc = "ids"
    /\ LET df == [cols |-> df_cols, rows |-> df_rows]
           names == IF date_cols = NotGiven THEN detect_date_columns(df) ELSE date_cols[1]
           processed == process_date_columns(df, names)
       IN /\ df_cols' = processed.cols
          /\ df_rows' = processed.rows
    /\ p_log' = p_log \o <<"Processed date columns">>
    /\ df_pc' = "dates"
    /\ UNCHANGED <<id_column, project_columns, plant_item_status, fact_parts, masterbom_clean>>
    /\ UNCHANGED date_cols
    /\ UNCHANGED <<nzVars, stVars, ddVars, swVars, runVars, ordVars, ccVars>>

H_SOP_Date == <<"S","O","P"," ","D","a","t","e">>
H_Approved_Date == <<"A","p","p","r","o","v","e","d"," ","D","a","t","e">>
H_Release_Date == <<"R","e","l","e","a","s","e"," ","D","a","t","e">>
V_2024_01_15 == <<"2","0","2","4","-","0","1","-","1","5">>
V_2024_01_16 == <<"2","0","2","4","-","0","1","-","1","6">>
V_2024_02_30 == <<"2","0","2","4","-","0","2","-","3","0">>
V_2024_02_29 == <<"2","0","2","4","-","0","2","-","2","9">>

\* The raw parts tables handed to the Date Dimension Builder: column names
\* are pairwise different, and a date column holds dates written
\* YYYY-MM-DD, other text, or nothing.
DateLayouts ==
    { [cols |-> <<H_SOP_Date, H_Approved_Date>>,
       cells |-> << {StrCell(V_2024_01_15), StrCell(V_2024_01_16), StrCell(V_tbd), Null},
                    {StrCell(V_2024_01_15), StrCell(V_2024_02_30), Null} >>],
      [cols |-> <<H_Plant_A, H_SOP_Date>>,
       cells |-> << {StrCell(<<"X">>)},
                    {StrCell(V_2024_01_15), StrCell(V_2024_02_29), StrCell(V_tbd)} >>] }

\* request.options.date_cols: none, a date column, a column that holds no
\* dates, a column the table lacks, a column named twice, two columns
RequestedDateColumns ==
    { <<>>, <<H_SOP_Date>>, <<H_Plant_A>>, <<H_Release_Date>>, <<H_SOP_Date, H_SOP_Date>>,
      <<H_Approved_Date, H_SOP_Date>> }

DatesIdle ==
    /\ dd_pc = "idle" /\ master_df = [cols |-> <<>>, rows |-> <<>>]
    /\ rq_date_cols = <<>> /\ date_column_names = <<>> /\ dim_dates = <<>>

InitDates ==
    /\ \E layout \in DateLayouts : \E k \in 0..MaxDateRows :
          \E rs \in [1..k -> RowsOf(layout)] :
             master_df = [cols |-> layout.cols, rows |-> [r \in 1..k |-> Row(r - 1, rs[r])]]
    /\ rq_date_cols \in RequestedDateColumns
    /\ dd_pc = "collect"
    /\ date_column_names = <<>>
    /\ dim_dates = <<>>

\* a variant that collects the date columns from the table the Parts
\* Processor has worked on
CollectDateColumns_from_working_table ==
    /\ dd_pc = "collect"
    /\ LET df == [cols |-> df_cols, rows |-> df_rows]
           explicit == SelectSeq(rq_date_cols, LAMBDA col : HasColumn(df.cols, col))
           auto_date_cols == detect_date_columns(df)
       IN date_column_names' =
             explicit \o SelectSeq(auto_date_cols, LAMBDA col : col \notin Range(explicit))
    /\ dd_pc' = "collected"
    /\ UNCHANGED <<master_df, rq_date_cols, dim_dates>>
    /\ UNCHANGED <<nzVars, stVars, dfVars, swVars, runVars, ordVars, ccVars>>

\* transform_data: the requested date columns the raw parts table has, then
\* the auto-detected ones not named yet
CollectDateColumns ==
    /\ dd_pc = "collect"
    /\ LET explicit == SelectSeq(rq_date_cols, LAMBDA col : HasColumn(master_df.cols, col))
           auto_date_cols == detect_date_columns(master_df)
       IN date_column_names' =
             explicit \o SelectSeq(auto_date_cols, LAMBDA col : col \notin Range(explicit))
    /\ dd_pc' = "collected"
    /\ UNCHANGED <<master_df, rq_date_cols, dim_dates>>
    /\ UNCHANGED <<nzVars, stVars, dfVars, swVars, runVars, ordVars, ccVars>>

\* transform_data: dim_dates = create_dim_dates(date_columns, date_column_names)
CreateDimDates ==
    /\ dd_pc = "collected"
    /\ dim_dates' = create_dim_dates([k \in DOMAIN date_column_names |->
                                        Column(master_df, date_column_names[k])],
                                     date_column_names)
    /\ dd_pc' = "done"
    /\ UNCHANGED <<master_df, rq_date_cols, date_column_names>>
    /\ UNCHANGED <<nzVars, stVars, dfVars, swVars, runVars, ordVars, ccVars>>

----------------------------------------------------------------------------
(* storage.DataStorage *)

\* the tables the Orchestrator stores, in the order of the mapping
TableNames ==
    <<"masterbom_clean", "plant_item_status", "fact_parts", "status_clean", "dim_dates">>

\* a table as the Storage Writer sees it: its name in the mapping, len(df)
\* and len(df.columns)
Table(name, rows, columns) == [name |-> name, rows |-> rows, columns |-> columns]

\* DataFrame.empty: no rows or no columns
df_empty(t) == t.rows = 0 \/ t.columns = 0

\* A file is named by its stem and extension; a write is named the same
\* way, <<table, ".sqlite">> being the to_sql of the table's relation.
SqliteName == <<"etl", ".sqlite">>
DictionaryName == <<"data_dictionary", ".md">>

\* ArtifactInfo (path and size_bytes are left out; row_count -1 is None)
Artifact(name, format, row_count) ==
    [name |-> name, format |-> format, row_count |-> row_count]

Saved(a, b) ==
    [artifacts |-> a.artifacts \o b.artifacts, files |-> a.files \cup b.files,
     log |-> a.log \o b.log]

\* _save_csv: an exception is logged and no artifact returned
save_csv(t, fail) ==
    IF <<t.name, ".csv">> \in fail
    THEN [artifacts |-> <<>>, files |-> {}, log |-> <<"error: Failed to save CSV">>]
    ELSE [artifacts |-> <<Artifact(<<t.name, ".csv">>, "CSV", t.rows)>>,
          files |-> {<<t.name, ".csv">>}, log |-> <<"Saved CSV">>]

\* _save_parquet
save_parquet(t, fail) ==
    IF <<t.name, ".parquet">> \in fail
    THEN [artifacts |-> <<>>, files |-> {}, log |-> <<"error: Failed to save Parquet">>]
    ELSE [artifacts |-> <<Artifact(<<t.name, ".parquet">>, "Parquet", t.rows)>>,
          files |-> {<<t.name, ".parquet">>}, log |-> <<"Saved Parquet">>]

\* save_all_formats: the loop over dataframes.items()
RECURSIVE save_files(_, _)
save_files(tables, fail) ==
    IF tables = <<>> THEN [artifacts |-> <<>>, files |-> {}, log |-> <<>>]
    ELSE LET t == Head(tables)
             this == IF df_empty(t)
                     THEN [artifacts |-> <<>>, files |-> {},
                           log |-> <<"warning: Skipping empty table">>]
                     ELSE Saved(save_csv(t, fail), save_parquet(t, fail))
         IN Saved(this, save_files(Tail(tables), fail))

\* _save_sqlite: the loop of to_sql over the non-empty tables; the first
\* exception leaves the loop
RECURSIVE to_sql_each(_, _)
to_sql_each(tables, fail) ==
    IF tables = <<>> THEN [relations |-> {}, raised |-> FALSE, log |-> <<>>]
    ELSE LET t == Head(tables)
         IN IF df_empty(t) THEN to_sql_each(Tail(tables), fail)
            ELSE IF <<t.name, ".sqlite">> \in fail
            THEN [relations |-> {}, raised |-> TRUE, log |-> <<>>]
            ELSE LET rest == to_sql_each(Tail(tables), fail)
                 IN [relations |-> {t.name} \cup rest.relations, raised |-> rest.raised,
                     log |-> <<"Saved table to SQLite">> \o rest.log]

\* sum(len(df) for df in dataframes.values())
RECURSIVE total_rows(_)
total_rows(tables) == IF tables = <<>> THEN 0 ELSE Head(tables).rows + total_rows(Tail(tables))

\* _save_sqlite.  The engine opens the database file at the first to_sql, so
\* with no non-empty table there is no file and sqlite_path.stat() raises;
\* every exception is logged by the one handler and no artifact returned.
save_sqlite(tables, fail) ==
    LET written == to_sql_each(tables, fail)
        opened == \E i \in DOMAIN tables : ~df_empty(tables[i])
        ok == opened /\ ~written.raised
    IN [artifacts |-> IF ok THEN <<Artifact(SqliteName, "SQLite", total_rows(tables))>>
                      ELSE <<>>,
        files |-> IF opened THEN {SqliteName} ELSE {},
        relations |-> written.relations,
        log |-> written.log \o (IF ok THEN <<"Saved SQLite database">>
                                ELSE <<"error: Failed to save SQLite database">>)]

\* the writes of a mapping over the given names
Writes(names) ==
    {<<names[i], ext>> : i \in DOMAIN names, ext \in {".csv", ".parquet", ".sqlite"}}
        \cup {DictionaryName}

\* the processed folder: its files, and the relations of etl.sqlite
EmptyFolder == [files |-> {}, relations |-> {}]
StaleFolder == [files |-> {SqliteName, <<"old_table", ".csv">>}, relations |-> {"old_table"}]

\* len(df), len(df.columns) of the tables of the model
TableShapes ==
    {[rows |-> 0, columns |-> 0]} \cup {[rows |-> r, columns |-> 1] : r \in 0..MaxTableRows}

StorageIdle ==
    /\ sw_pc = "idle" /\ all_dataframes = <<>> /\ sw_fail = {}
    /\ processed_folder = EmptyFolder /\ artifacts = <<>> /\ dict_path = "" /\ sw_log = <<>>

\* DataStorage(logger) and a mapping of up to MaxTables tables; at most
\* MaxFailures writes raise
InitStorage ==
    /\ \E n \in 1..MaxTables : \E shape \in [1..n -> TableShapes] :
          /\ all_dataframes =
                [i \in 1..n |-> Table(TableNames[i], shape[i].rows, shape[i].columns)]
          /\ sw_fail \in {fs \in SUBSET Writes(SubSeq(TableNames, 1, n)) :
                             Cardinality(fs) <= MaxFailures}
    /\ processed_folder \in {EmptyFolder, StaleFolder}
    /\ sw_pc = "save"
    /\ artifacts = <<>>
    /\ dict_path = ""
    /\ sw_log = <<>>

\* save_all_formats
SaveAllFormats ==
    /\ sw_pc = "save"
    /\ LET files == save_files(all_dataframes, sw_fail)
           sqlite == save_sqlite(all_dataframes, sw_fail)
       IN /\ artifacts' = files.artifacts \o sqlite.artifacts
          /\ processed_folder' =
                [files |-> (processed_folder.files \ {SqliteName})
                              \cup files.files \cup sqlite.files,
                 relations |-> sqlite.relations]
          /\ sw_log' = sw_log \o <<"Starting data storage">> \o files.log \o sqlite.log
                          \o <<"Data storage complete">>
    /\ sw_pc' = "saved"
    /\ UNCHANGED <<all_dataframes, sw_fail, dict_path>>
    /\ UNCHANGED <<nzVars, stVars, dfVars, ddVars, runVars, ordVars, ccVars>>

\* create_data_dictionary: the path of the file, "" after an exception
CreateDataDictionary ==
    /\ sw_pc = "saved"
    /\ IF DictionaryName \in sw_fail
       THEN /\ dict_path' = ""
            /\ sw_log' = sw_log \o <<"error: Failed to create data dictionary">>
            /\ UNCHANGED processed_folder
       ELSE /\ dict_path' = "data_dictionary.md"
            /\ sw_log' = sw_log \o <<"Created data dictionary">>
            /\ processed_folder' =
                  [processed_folder EXCEPT !.files = @ \cup {DictionaryName}]
    /\ sw_pc' = "dict"
    /\ UNCHANGED <<all_dataframes, sw_fail, artifacts>>
    /\ UNCHANGED <<nzVars, stVars, dfVars, ddVars, runVars, ordVars, ccVars>>

\* the mappings of the runs that follow one another into one folder:
\* MaxTables tables, each empty or not
RerunMappings ==
    {[i \in 1..MaxTables |-> Table(TableNames[i], shape[i].rows, shape[i].columns)] :
        shape \in [1..MaxTables -> TableShapes]}

\* the first run into a new folder; no write raises
InitRerun ==
    /\ all_dataframes \in RerunMappings
    /\ sw_fail = {}
    /\ processed_folder = EmptyFolder
    /\ sw_pc = "save"
    /\ artifacts = <<>>
    /\ dict_path = ""
    /\ sw_log = <<>>

\* the next request: DataStorage(logger) on the same processed_folder, which
\* is kept as it is (mkdir(exist_ok=True)), and a new mapping
NextRun ==
    /\ sw_pc = "dict"
    /\ all_dataframes' \in RerunMappings
    /\ artifacts' = <<>>
    /\ dict_path' = ""
    /\ sw_log' = <<>>
    /\ sw_pc' = "save"
    /\ UNCHANGED <<sw_fail, processed_folder>>
    /\ UNCHANGED <<nzVars, stVars, dfVars, ddVars, runVars, ordVars, ccVars>>

----------------------------------------------------------------------------
(* routes_transform.transform_data *)

\* what the request names: a file and two sheets that exist, or one of the
\* four things the validation rejects
RequestKinds ==
    {"ok", "invalid_file_id", "file_not_found", "master_sheet_missing",
     "status_sheet_missing"}

\* a variant that returns only what the Orchestrator itself logged
get_messages_orchestrator_only(log, pending) == log

\* ETLLogger.get_messages(): every message logged so far, in order.  The
\* components log to the logger of the run: pending is what the component
\* that has just returned or raised has logged.
get_messages(log, pending) == log \o pending

\* TransformSummary (processing_time_seconds is left out)
Summary(total, active, inactive, new, duplicate, plants, date_columns) ==
    [total_parts |-> total, active_parts |-> active, inactive_parts |-> inactive,
     new_parts |-> new, duplicate_parts |-> duplicate, plants_detected |-> plants,
     duplicates_removed |-> 0, date_columns_processed |-> date_columns]

ZeroSummary == Summary(0, 0, 0, 0, 0, 0, <<>>)

\* status_counts.get(class, 0)
StatusCount(plant_status, class) ==
    Cardinality({n \in DOMAIN plant_status : plant_status[n].status_class = class})

\* _calculate_summary
calculate_summary(plant_status, date_columns) ==
    IF plant_status # <<>>
    THEN Summary(Cardinality({plant_status[n].part_id_std : n \in DOMAIN plant_status}),
                 StatusCount(plant_status, "active"),
                 StatusCount(plant_status, "inactive"),
                 StatusCount(plant_status, "new"),
                 StatusCount(plant_status, "duplicate"),
                 Cardinality({plant_status[n].project_plant : n \in DOMAIN plant_status}),
                 date_columns)
    ELSE Summary(0, 0, 0, 0, 0, 0, date_columns)

\* TransformResponse; returned is FALSE while the run has returned nothing
TransformResponse(success, arts, summary, messages, error) ==
    [returned |-> TRUE, success |-> success, artifacts |-> arts, summary |-> summary,
     messages |-> messages, error |-> error]

NoResponse ==
    [returned |-> FALSE, success |-> FALSE, artifacts |-> <<>>, summary |-> ZeroSummary,
     messages |-> <<>>, error |-> ""]

\* str(e) of the exception that ends the run: the IndexError of columns[0]
\* in the Parts Processor, or the exception raised in a stage of the Status
\* Processor, named by its stage
ExceptionMessage ==
    IF df_pc = "failed" THEN "list index out of range" ELSE st_exc[Len(st_exc)]

\* The raw parts tables of a run: a plant and a date column, two plants, no
\* plant column, or a sheet without columns.
RunMasterLayouts ==
    { [cols |-> <<id_col, H_Plant_A, C_Item_Description, H_SOP_Date>>,
       cells |-> << {StrCell(V_a1), StrCell(V_a_at_1)},
                    {StrCell(<<"X">>), StrCell(<<"0">>)},
                    {StrCell(V_widget)},
                    {StrCell(V_2024_01_15), StrCell(V_tbd)} >>],
      [cols |-> <<id_col, H_Plant_A, H_Plant_B, C_Item_Description>>,
       cells |-> << {StrCell(V_a1)},
                    {StrCell(<<"X">>), Null},
                    {StrCell(<<"X">>), StrCell(<<"D">>)},
                    {StrCell(V_widget)} >>],
      [cols |-> <<id_col, C_Item_Description, C_Supplier_Name>>,
       cells |-> << {StrCell(V_a1)}, {StrCell(V_widget), Null}, {StrCell(V_acme)} >>],
      [cols |-> <<>>, cells |-> <<>>] }

\* The raw status tables of a run: one row, which may be empty.
RunStatusLayout ==
    [cols |-> <<N_Project, H_Drawing_Available>>,
     cells |-> << {Null, StrCell(V_project_alpha)}, {Null, StrCell(V_85)} >>]

\* where the Status Processor of a run meets an exception: nowhere, in its
\* first or its last stage, or in the stage that handles it
RunStatusFaults == {"none", "headers", "project", "rows"}

\* the writes that raise in a run: none, a file of one table, the dictionary
RunFailures == { {}, {<<"masterbom_clean", ".csv">>}, {DictionaryName} }

RunIdle ==
    /\ run_pc = "idle" /\ rq = "ok" /\ run_log = <<>> /\ response = NoResponse

OrderIdle ==
    /\ ord_pc = "idle" /\ ord_raw = <<>> /\ ord_first = <<>>

ConcurrentIdle ==
    /\ cc_pc = <<>> /\ cc_tables = <<>> /\ cc_next = <<>> /\ cc_saw = <<>>
    /\ cc_conn = <<>> /\ cc_err = <<>>
    /\ cc_path = 0 /\ cc_inodes = <<>> /\ cc_pooled = FALSE

\* a request arrives: the two sheets named by a valid request hold the raw
\* tables; the request names no date column
InitRun ==
    /\ rq \in RequestKinds
    /\ IF rq = "ok"
       THEN /\ \E layout \in RunMasterLayouts :
                  \E k \in 0..(IF layout.cols = <<>> THEN 0 ELSE MaxRunRows) :
                     \E rs \in [1..k -> RowsOf(layout)] :
                        master_df = [cols |-> layout.cols,
                                     rows |-> [r \in 1..k |-> Row(r - 1, rs[r])]]
            /\ \E cs \in RowsOf(RunStatusLayout) :
                  st_raw = [cols |-> RunStatusLayout.cols, rows |-> <<Row(0, cs)>>]
            /\ st_fault \in RunStatusFaults
            /\ sw_fail \in RunFailures
       ELSE /\ master_df = [cols |-> <<>>, rows |-> <<>>]
            /\ st_raw = [cols |-> <<>>, rows |-> <<>>]
            /\ st_fault = "none"
            /\ sw_fail = {}
    /\ run_pc = "start" /\ run_log = <<>> /\ response = NoResponse
    /\ PartsIdle
    /\ st_pc = "idle" /\ st_cols = <<>> /\ st_rows = <<>> /\ st_log = <<>>
    /\ st_exc = <<>> /\ st_before = <<>>
    /\ dd_pc = "idle" /\ rq_date_cols = <<>> /\ date_column_names = <<>>
    /\ dim_dates = <<>>
    /\ sw_pc = "idle" /\ all_dataframes = <<>> /\ processed_folder = EmptyFolder
    /\ artifacts = <<>> /\ dict_path = "" /\ sw_log = <<>>

\* The validation of the request, which raises HTTPException (logged and
\* raised again by the handler of transform_data), then the reading of the
\* two sheets and MasterBOMProcessor(master_df, etl_logger).
StartTransform ==
    /\ run_pc = "start"
    /\ IF rq \in {"invalid_file_id", "file_not_found"}
       THEN /\ run_log' = run_log \o <<"error: ETL transformation failed with HTTP error">>
            /\ run_pc' = "http_error"
            /\ UNCHANGED <<df_pc, df_cols, df_rows, date_cols>>
       ELSE IF rq \in {"master_sheet_missing", "status_sheet_missing"}
       THEN /\ run_log' = run_log \o <<"Starting ETL transformation",
                                       "error: ETL transformation failed with HTTP error">>
            /\ run_pc' = "http_error"
            /\ UNCHANGED <<df_pc, df_cols, df_rows, date_cols>>
       ELSE /\ run_log' = run_log \o <<"Starting ETL transformation", "Reading Excel sheets",
                                       "Sheets loaded successfully",
                                       "Processing MasterBOM sheet">>
            /\ df_cols' = master_df.cols
            /\ df_rows' = master_df.rows
            /\ date_cols' = Given(rq_date_cols)
            /\ df_pc' = "start"
            /\ run_pc' = "parts"
    /\ UNCHANGED <<rq, response>>
    /\ UNCHANGED <<id_column, project_columns, plant_item_status, fact_parts,
                   masterbom_clean, p_log>>
    /\ UNCHANGED <<nzVars, stVars, ddVars, swVars, ordVars, ccVars>>

\* master_processor.process(...) has returned: StatusProcessor(status_df, etl_logger)
MasterBOMProcessed ==
    /\ run_pc = "parts"
    /\ df_pc = "done"
    /\ run_log' = get_messages(run_log, p_log) \o <<"Processing Status sheet">>
    /\ st_cols' = st_raw.cols
    /\ st_rows' = st_raw.rows
    /\ st_pc' = "start"
    /\ run_pc' = "status"
    /\ UNCHANGED <<rq, response>>
    /\ UNCHANGED <<st_raw, st_log, st_fault, st_exc, st_before>>
    /\ UNCHANGED <<nzVars, dfVars, ddVars, swVars, ordVars, ccVars>>

\* a variant that goes on to the date dimension whether process() has
\* returned or raised
StatusProcessed_also_after_raise ==
    /\ run_pc = "status"
    /\ st_pc \in {"done", "raised"}
    /\ run_log' = get_messages(run_log, st_log) \o <<"Creating date dimension">>
    /\ dd_pc' = "collect"
    /\ run_pc' = "dates"
    /\ UNCHANGED <<rq, response>>
    /\ UNCHANGED <<master_df, rq_date_cols, date_column_names, dim_dates>>
    /\ UNCHANGED <<nzVars, stVars, dfVars, swVars, ordVars, ccVars>>

\* status_processor.process() has returned: the date dimension is next
StatusProcessed ==
    /\ run_pc = "status"
    /\ st_pc = "done"
    /\ run_log' = get_messages(run_log, st_log) \o <<"Creating date dimension">>
    /\ dd_pc' = "collect"
    /\ run_pc' = "dates"
    /\ UNCHANGED <<rq, response>>
    /\ UNCHANGED <<master_df, rq_date_cols, date_column_names, dim_dates>>
    /\ UNCHANGED <<nzVars, stVars, dfVars, swVars, ordVars, ccVars>>

\* len(df.columns) of the tables handed to the Storage Writer; pd.DataFrame()
\* has no columns
MasterbomColumns == Len(df_cols)
PlantItemStatusColumns == IF project_columns = <<>> THEN 0 ELSE Len(df_cols) + 1
FactPartsColumns == Len(SelectSeq(business_cols, LAMBDA c : HasColumn(df_cols, c))) + 2
DimDatesColumns == IF dim_dates = <<>> THEN 0 ELSE 10

\* all_dataframes = {...}; storage = DataStorage(etl_logger)
SaveProcessedData ==
    /\ run_pc = "dates"
    /\ dd_pc = "done"
    /\ all_dataframes' =
          << Table(TableNames[1], Len(masterbom_clean), MasterbomColumns),
             Table(TableNames[2], Len(plant_item_status), PlantItemStatusColumns),
             Table(TableNames[3], Len(fact_parts), FactPartsColumns),
             Table(TableNames[4], Len(st_rows), Len(st_cols)),
             Table(TableNames[5], Len(dim_dates), DimDatesColumns) >>
    /\ run_log' = run_log \o <<"Saving processed data">>
    /\ sw_pc' = "save"
    /\ run_pc' = "storage"
    /\ UNCHANGED <<rq, response>>
    /\ UNCHANGED <<sw_fail, processed_folder, artifacts, dict_path, sw_log>>
    /\ UNCHANGED <<nzVars, stVars, dfVars, ddVars, ordVars, ccVars>>

\* The artifact of the data dictionary, the summary, the post-ETL pipeline
\* (which handles its own exceptions) and the response of a completed run.
Respond ==
    /\ run_pc = "storage"
    /\ sw_pc = "dict"
    /\ \E pipeline_ok \in BOOLEAN :
          LET messages ==
                 get_messages(run_log, sw_log)
                    \o <<"Starting post-ETL pipeline">>
                    \o (IF pipeline_ok THEN <<"Post-ETL pipeline completed successfully">>
                        ELSE <<"error: Post-ETL pipeline failed">>)
                    \o <<"ETL transformation completed successfully">>
          IN /\ run_log' = messages
             /\ response' = TransformResponse(
                    TRUE,
                    artifacts \o (IF dict_path # ""
                                  THEN <<Artifact(DictionaryName, "Markdown", -1)>>
                                  ELSE <<>>),
                    calculate_summary(plant_item_status, date_column_names),
                    messages,
                    "")
    /\ run_pc' = "responded"
    /\ UNCHANGED rq
    /\ UNCHANGED <<nzVars, stVars, dfVars, ddVars, swVars, ordVars, ccVars>>

\* except Exception as e: the failure is logged and the failure response
\* returned.  The exception comes from a processor, which has no handler
\* for it (Parts Processor) or logs it and raises it again (Status Processor).
UnexpectedError ==
    /\ \/ run_pc = "parts" /\ df_pc = "failed"
       \/ run_pc = "status" /\ st_pc = "raised"
    /\ LET messages ==
              get_messages(run_log, IF run_pc = "parts" THEN p_log ELSE st_log)
                 \o <<"error: ETL transformation failed with unexpected error">>
       IN /\ run_log' = messages
          /\ response' = TransformResponse(FALSE, <<>>, ZeroSummary, messages,
                                           ExceptionMessage)
    /\ run_pc' = "responded"
    /\ UNCHANGED rq
    /\ UNCHANGED <<nzVars, stVars, dfVars, ddVars, swVars, ordVars, ccVars>>

----------------------------------------------------------------------------
(* The two processors of a run, called in one order and then in the other  *)
(* on the same pair of raw tables                                           *)

\* The raw parts tables: a plant, a description and a date column that
\* holds dates, other text, or nothing.
OrderMasterLayout ==
    [cols |-> <<id_col, H_Plant_A, C_Item_Description, H_SOP_Date>>,
     cells |-> << {StrCell(V_a1)}, {StrCell(<<"X">>)}, {StrCell(V_widget)},
                  {StrCell(V_2024_01_15), StrCell(V_tbd), Null} >>]

\* the argument date_cols of process(): left out, an empty list, the date
\* column, a column that the table lacks
OrderDateCols == {NotGiven, Given(<<>>), Given(<<H_SOP_Date>>), Given(<<H_Release_Date>>)}

\* what the two processors have returned
ProcessorResults ==
    [masterbom_columns |-> df_cols, masterbom_clean |-> masterbom_clean,
     plant_item_status |-> plant_item_status, fact_parts |-> fact_parts,
     status_columns |-> st_cols, status_clean |-> st_rows]

\* the two sheets are read; ord_raw keeps them, and the arguments, as read
InitProcessors ==
    /\ \E k \in 0..MaxDateRows : \E rs \in [1..k -> RowsOf(OrderMasterLayout)] :
          master_df = [cols |-> OrderMasterLayout.cols,
                       rows |-> [r \in 1..k |-> Row(r - 1, rs[r])]]
    /\ \E cs \in RowsOf(RunStatusLayout) :
          st_raw = [cols |-> RunStatusLayout.cols, rows |-> <<Row(0, cs)>>]
    /\ \E dc \in OrderDateCols :
          /\ ord_raw = [master |-> master_df, status |-> st_raw, date_cols |-> dc]
          /\ rq_date_cols = IF dc = NotGiven THEN <<>> ELSE dc[1]
    /\ ord_pc = "first" /\ ord_first = <<>>
    /\ PartsIdle
    /\ st_pc = "idle" /\ st_cols = <<>> /\ st_rows = <<>> /\ st_log = <<>>
    /\ st_fault = "none" /\ st_exc = <<>> /\ st_before = <<>>
    /\ dd_pc = "idle" /\ date_column_names = <<>> /\ dim_dates = <<>>

\* MasterBOMProcessor(master_df, logger).process(id_col, date_cols): first in
\* the first order, after the Status Processor in the second
StartPartsProcessor ==
    /\ df_pc = "idle"
    /\ \/ ord_pc = "first"
       \/ ord_pc = "second" /\ st_pc = "done"
    /\ df_cols' = master_df.cols
    /\ df_rows' = master_df.rows
    /\ date_cols' = ord_raw.date_cols
    /\ df_pc' = "start"
    /\ UNCHANGED <<id_column, project_columns, plant_item_status, fact_parts,
                   masterbom_clean, p_log>>
    /\ UNCHANGED <<nzVars, stVars, ddVars, swVars, runVars, ordVars, ccVars>>

\* StatusProcessor(status_df, logger).process(): after the Parts Processor in
\* the first order, first in the second
StartStatusProcessor ==
    /\ st_pc = "idle"
    /\ \/ ord_pc = "first" /\ df_pc = "done"
       \/ ord_pc = "second"
    /\ st_cols' = st_raw.cols
    /\ st_rows' = st_raw.rows
    /\ st_pc' = "start"
    /\ UNCHANGED <<st_raw, st_log, st_fault, st_exc, st_before>>
    /\ UNCHANGED <<nzVars, dfVars, ddVars, swVars, runVars, ordVars, ccVars>>

\* both processors have returned: their results are kept and the two are
\* called again, the Status Processor first
SwapOrder ==
    /\ ord_pc = "first"
    /\ df_pc = "done" /\ st_pc = "done"
    /\ ord_first' = ProcessorResults
    /\ ord_pc' = "second"
    /\ df_pc' = "idle" /\ df_cols' = <<>> /\ df_rows' = <<>>
    /\ id_column' = <<>> /\ project_columns' = <<>>
    /\ plant_item_status' = <<>> /\ fact_parts' = <<>> /\ masterbom_clean' = <<>>
    /\ p_log' = <<>> /\ date_cols' = NotGiven
    /\ st_pc' = "idle" /\ st_cols' = <<>> /\ st_rows' = <<>> /\ st_log' = <<>>
    /\ st_before' = <<>>
    /\ UNCHANGED <<st_raw, st_fault, st_exc, ord_raw>>
    /\ UNCHANGED <<nzVars, ddVars, swVars, runVars, ccVars>>

\* both processors have returned again: the date dimension is built from
\* the raw parts table
BuildDateDimension ==
    /\ ord_pc = "second"
    /\ df_pc = "done" /\ st_pc = "done"
    /\ ord_pc' = "dates"
    /\ dd_pc' = "collect"
    /\ UNCHANGED <<ord_raw, ord_first>>
    /\ UNCHANGED <<master_df, rq_date_cols, date_column_names, dim_dates>>
    /\ UNCHANGED <<nzVars, stVars, dfVars, swVars, runVars, ccVars>>

----------------------------------------------------------------------------
(* Two runs in two server processes, in _save_sqlite on one folder *)

\* transform_data has no await, so one server process runs its requests one
\* after the other; two runs overlap when two server processes share the
\* processed folder.  Each process is then at its own line of _save_sqlite,
\* and the file system is all they share.
Runs == 1..2
MaxConcurrentTables == 2

\* The database file is an inode: the relations it holds, each with the run
\* that wrote it (run 0 is a run that ended before these two began).  The
\* path etl.sqlite names one inode, or none (0).
StaleInode == {<<"old_table", 0>>}

\* the mappings of a run: the first tables of the Orchestrator's mapping,
\* at least one of them non-empty
ConcurrentMappings ==
    {m \in [1..MaxConcurrentTables -> {0, 1}] : \E i \in DOMAIN m : m[i] = 1}

\* DataStorage.__init__ in both processes: the folder exists already or is
\* made, and what is in it stays.  cc_pooled is the pool of the engine:
\* create_engine on a file database keeps its connection open between
\* to_sql calls with a QueuePool, and opens the path anew with a NullPool.
InitConcurrent ==
    /\ \E shape \in [Runs -> ConcurrentMappings] :
          cc_tables = [r \in Runs |->
                          [i \in 1..MaxConcurrentTables |-> Table(TableNames[i], shape[r][i], 1)]]
    /\ cc_pc = [r \in Runs |-> "exists"]
    /\ cc_next = [r \in Runs |-> 1]
    /\ cc_saw = [r \in Runs |-> FALSE]
    /\ cc_conn = [r \in Runs |-> 0]
    /\ cc_err = [r \in Runs |-> FALSE]
    /\ \/ cc_path = 0 /\ cc_inodes = <<>>
       \/ cc_path = 1 /\ cc_inodes = <<StaleInode>>
    /\ cc_pooled \in BOOLEAN

\* if sqlite_path.exists():
SqliteExists(r) ==
    /\ cc_pc[r] = "exists"
    /\ cc_saw' = [cc_saw EXCEPT ![r] = (cc_path # 0)]
    /\ cc_pc' = [cc_pc EXCEPT ![r] = IF cc_path # 0 THEN "unlink" ELSE "to_sql"]
    /\ UNCHANGED <<cc_tables, cc_next, cc_conn, cc_err, cc_path, cc_inodes, cc_pooled>>
    /\ UNCHANGED <<nzVars, stVars, dfVars, ddVars, swVars, runVars, ordVars>>

\* sqlite_path.unlink(): FileNotFoundError when the path is gone by now, and
\* the one handler of _save_sqlite logs it and returns no artifact
SqliteUnlink(r) ==
    /\ cc_pc[r] = "unlink"
    /\ IF cc_path = 0
          THEN /\ cc_err' = [cc_err EXCEPT ![r] = TRUE]
               /\ cc_pc' = [cc_pc EXCEPT ![r] = "done"]
               /\ UNCHANGED cc_path
          ELSE /\ cc_path' = 0
               /\ cc_pc' = [cc_pc EXCEPT ![r] = "to_sql"]
               /\ UNCHANGED cc_err
    /\ UNCHANGED <<cc_tables, cc_next, cc_saw, cc_conn, cc_inodes, cc_pooled>>
    /\ UNCHANGED <<nzVars, stVars, dfVars, ddVars, swVars, runVars, ordVars>>

\* to_sql(table_name, engine, if_exists='replace') in one transaction
replace_relation(inode, name, r) == {rel \in inode : rel[1] # name} \cup {<<name, r>>}

\* one turn of the loop over the mapping: an empty table is passed over; the
\* others are written through the connection of the pool, or through a new
\* one that opens the path and makes the file when there is none
SqliteToSql(r) ==
    /\ cc_pc[r] = "to_sql"
    /\ cc_next[r] <= Len(cc_tables[r])
    /\ LET t == cc_tables[r][cc_next[r]]
           made == Len(cc_inodes) + 1
           target == IF cc_conn[r] # 0 THEN cc_conn[r]
                     ELSE IF cc_path # 0 THEN cc_path ELSE made
       IN IF df_empty(t)
             THEN UNCHANGED <<cc_conn, cc_path, cc_inodes>>
             ELSE /\ cc_inodes' =
                        IF target = made
                           THEN Append(cc_inodes, {<<t.name, r>>})
                           ELSE [cc_inodes EXCEPT ![target] = replace_relation(@, t.name, r)]
                  /\ cc_path' = IF cc_conn[r] = 0 /\ cc_path = 0 THEN made ELSE cc_path
                  /\ cc_conn' = [cc_conn EXCEPT ![r] = IF cc_pooled THEN target ELSE 0]
    /\ cc_next' = [cc_next EXCEPT ![r] = @ + 1]
    /\ UNCHANGED <<cc_pc, cc_tables, cc_saw, cc_err, cc_pooled>>
    /\ UNCHANGED <<nzVars, stVars, dfVars, ddVars, swVars, runVars, ordVars>>

\* engine.dispose(), then sqlite_path.stat(): FileNotFoundError when the
\* path names no file, logged by the same handler
SqliteStat(r) ==
    /\ cc_pc[r] = "to_sql"
    /\ cc_next[r] > Len(cc_tables[r])
    /\ cc_conn' = [cc_conn EXCEPT ![r] = 0]
    /\ cc_err' = [cc_err EXCEPT ![r] = (cc_path = 0)]
    /\ cc_pc' = [cc_pc EXCEPT ![r] = "done"]
    /\ UNCHANGED <<cc_tables, cc_next, cc_saw, cc_path, cc_inodes, cc_pooled>>
    /\ UNCHANGED <<nzVars, stVars, dfVars, ddVars, swVars, runVars, ordVars>>

----------------------------------------------------------------------------
(* Specifications *)

\* the Parts Processor on every parts table of the model
Init == InitParts /\ NormalizerIdle /\ StatusIdle /\ DatesIdle /\ StorageIdle /\ RunIdle /\ OrderIdle /\ ConcurrentIdle

Next ==
    \/ CleanColumnNames
    \/ IdentifyColumns
    \/ CleanIdColumn
    \/ ProcessDateColumns
    \/ StandardizePartsText
    \/ CreatePlantItemStatus
    \/ CreateFactParts
    \/ FinalizeMasterbom

Spec == Init /\ [][Next]_vars

\* the Status Processor on every status table of the model
StatusInit == InitStatus /\ NormalizerIdle /\ PartsIdle /\ DatesIdle /\ StorageIdle /\ RunIdle /\ OrderIdle /\ ConcurrentIdle

StatusNext ==
    \/ CleanHeaders
    \/ StandardizeTextColumns
    \/ ConvertPercentageColumns
    \/ CleanProjectNames
    \/ RemoveEmptyRows

StatusSpec == StatusInit /\ [][StatusNext]_vars

\* header normalization on every header row of the model
HeadersInit == InitHeaders /\ NormalizerIdle /\ PartsIdle /\ DatesIdle /\ StorageIdle /\ RunIdle /\ OrderIdle /\ ConcurrentIdle

HeadersNext == CleanHeaders

HeadersSpec == HeadersInit /\ [][HeadersNext]_vars

\* the Field Normalizer functions on every input of the model
NormalizerInit == InitNormalizer /\ StatusIdle /\ PartsIdle /\ DatesIdle /\ StorageIdle /\ RunIdle /\ OrderIdle /\ ConcurrentIdle

NormalizerNext ==
    \/ CleanIdentifier
    \/ CleanIdentifierAgain
    \/ FormatPercent
    \/ ParsePercentage

NormalizerSpec == NormalizerInit /\ [][NormalizerNext]_vars

\* the Date Dimension Builder, with the collection of its columns, on every
\* table and request of the model
DatesInit == InitDates /\ NormalizerIdle /\ StatusIdle /\ PartsIdle /\ StorageIdle /\ RunIdle /\ OrderIdle /\ ConcurrentIdle

DatesNext ==
    \/ CollectDateColumns
    \/ CreateDimDates

DatesSpec == DatesInit /\ [][DatesNext]_vars

\* the Storage Writer on every mapping of tables and failing writes of the model
StorageInit == InitStorage /\ NormalizerIdle /\ StatusIdle /\ PartsIdle /\ DatesIdle /\ RunIdle /\ OrderIdle /\ ConcurrentIdle

StorageNext ==
    \/ SaveAllFormats
    \/ CreateDataDictionary

StorageSpec == StorageInit /\ [][StorageNext]_vars

\* runs of the Storage Writer, one after the other, into one folder
RerunInit ==
    InitRerun /\ NormalizerIdle /\ StatusIdle /\ PartsIdle /\ DatesIdle /\ RunIdle
       /\ OrderIdle /\ ConcurrentIdle

RerunNext ==
    \/ SaveAllFormats
    \/ CreateDataDictionary
    \/ NextRun

RerunSpec == RerunInit /\ [][RerunNext]_vars

\* a whole transformation run: the Orchestrator and the components it calls
RunInit == InitRun /\ NormalizerIdle /\ OrderIdle /\ ConcurrentIdle

RunNext ==
    \/ StartTransform
    \/ CleanColumnNames
    \/ IdentifyColumns
    \/ CleanIdColumn
    \/ ProcessDateColumns
    \/ StandardizePartsText
    \/ CreatePlantItemStatus
    \/ CreateFactParts
    \/ FinalizeMasterbom
    \/ MasterBOMProcessed
    \/ CleanHeaders
    \/ StandardizeTextColumns
    \/ ConvertPercentageColumns
    \/ CleanProjectNames
    \/ RemoveEmptyRows
    \/ StatusProcessed
    \/ CollectDateColumns
    \/ CreateDimDates
    \/ SaveProcessedData
    \/ SaveAllFormats
    \/ CreateDataDictionary
    \/ Respond
    \/ UnexpectedError

RunSpec == RunInit /\ [][RunNext]_vars

\* the two processors in either order, then the date dimension
ProcessorsInit ==
    InitProcessors /\ NormalizerIdle /\ StorageIdle /\ RunIdle /\ ConcurrentIdle

ProcessorsNext ==
    \/ StartPartsProcessor
    \/ CleanColumnNames
    \/ IdentifyColumns
    \/ CleanIdColumn
    \/ ProcessDateColumns
    \/ StandardizePartsText
    \/ CreatePlantItemStatus
    \/ CreateFactParts
    \/ FinalizeMasterbom
    \/ StartStatusProcessor
    \/ CleanHeaders
    \/ StandardizeTextColumns
    \/ ConvertPercentageColumns
    \/ CleanProjectNames
    \/ RemoveEmptyRows
    \/ SwapOrder
    \/ BuildDateDimension
    \/ CollectDateColumns
    \/ CreateDimDates

ProcessorsSpec == ProcessorsInit /\ [][ProcessorsNext]_vars

\* two runs, each at its own line of _save_sqlite
ConcurrentInit ==
    InitConcurrent /\ NormalizerIdle /\ StatusIdle /\ PartsIdle /\ DatesIdle /\ StorageIdle
       /\ RunIdle /\ OrderIdle

ConcurrentNext ==
    \/ \E r \in Runs : SqliteExists(r)
    \/ \E r \in Runs : SqliteUnlink(r)
    \/ \E r \in Runs : SqliteToSql(r)
    \/ \E r \in Runs : SqliteStat(r)

ConcurrentSpec == ConcurrentInit /\ [][ConcurrentNext]_vars

----------------------------------------------------------------------------
(* Properties of the Parts Processor (Spec) *)

PartsDone == df_pc = "done"
PlantStatusBuilt == df_pc \in {"pis", "fact", "done"}

CounterSum(row) == row.n_active + row.n_inactive + row.n_new + row.n_duplicate

\* the rows of plant_item_status with the part_id_std of row n and class cls
RowsOfPartWithClass(n, cls) ==
    {m \in DOMAIN plant_item_status :
        /\ plant_item_status[m].part_id_std = plant_item_status[n].part_id_std
        /\ plant_item_status[m].status_class = cls}

\* the rows of the working parts table whose part_id_std is id
PartsRowsWithId(id) == {r \in DOMAIN df_rows : Cell(df_cols, df_rows[r], C_part_id_std) = id}

\* C1: for every non-empty parts table, also one in which several rows share a
\* part_id_std or are exact duplicates, every row of plant_item_status has
\* n_active + n_inactive + n_new + n_duplicate = the number of plant columns
\* identified for the table.
C1_CountersSumToPlantColumns ==
    (PartsDone /\ df_rows # <<>>) =>
        \A n \in DOMAIN plant_item_status :
            CounterSum(plant_item_status[n]) = Len(project_columns)

\* C2: all rows of plant_item_status sharing a part_id_std carry the same four
\* counters, and each counter is the number of plant_item_status rows with that
\* part_id_std whose status_class is active, inactive, new or duplicate
\* (0 when the class does not occur).
C2_CountersArePerPartClassCounts ==
    PlantStatusBuilt =>
        \A n \in DOMAIN plant_item_status :
            LET row == plant_item_status[n]
            IN /\ row.n_active = Cardinality(RowsOfPartWithClass(n, "active"))
               /\ row.n_inactive = Cardinality(RowsOfPartWithClass(n, "inactive"))
               /\ row.n_new = Cardinality(RowsOfPartWithClass(n, "new"))
               /\ row.n_duplicate = Cardinality(RowsOfPartWithClass(n, "duplicate"))
               /\ \A m \in DOMAIN plant_item_status :
                    plant_item_status[m].part_id_std = row.part_id_std =>
                        /\ plant_item_status[m].n_active = row.n_active
                        /\ plant_item_status[m].n_inactive = row.n_inactive
                        /\ plant_item_status[m].n_new = row.n_new
                        /\ plant_item_status[m].n_duplicate = row.n_duplicate

\* two parts with different counters, one of them with two rows of one class
\* and no row of another
C2_Witness ==
    /\ PartsDone
    /\ \E n, m \in DOMAIN plant_item_status :
        /\ plant_item_status[n].part_id_std # plant_item_status[m].part_id_std
        /\ plant_item_status[n].n_active = 1
        /\ plant_item_status[n].n_inactive = 1
        /\ plant_item_status[n].n_duplicate = 0
        /\ plant_item_status[m].n_duplicate = 1
        /\ plant_item_status[m].n_active = 0

FactId(f) == fact_parts[f].cells[1]

\* C3: fact_parts has exactly one row for each distinct part_id_std of
\* masterbom_clean and no part_id_std twice; when several parts rows share a
\* part_id_std the fact row carries the values of the first of them in table order.
C3_FactPartsOneRowPerPart ==
    PartsDone =>
        /\ {FactId(f) : f \in DOMAIN fact_parts}
              = {Cell(df_cols, masterbom_clean[r], C_part_id_std) : r \in DOMAIN masterbom_clean}
        /\ \A f, g \in DOMAIN fact_parts : FactId(f) = FactId(g) => f = g
        /\ \A f \in DOMAIN fact_parts : fact_parts[f].columns[1] = C_part_id_std
        /\ \A f \in DOMAIN fact_parts :
            LET first == CHOOSE r \in PartsRowsWithId(FactId(f)) :
                            \A q \in PartsRowsWithId(FactId(f)) : r <= q
            IN /\ fact_parts[f].index = df_rows[first].index
               /\ \A k \in DOMAIN fact_parts[f].columns :
                    fact_parts[f].cells[k] = Cell(df_cols, df_rows[first], fact_parts[f].columns[k])

\* two rows that are no exact duplicates of each other share a part_id_std
C3_Witness ==
    /\ PartsDone
    /\ Len(fact_parts) = 1
    /\ Len(masterbom_clean) = 2
    /\ Cell(df_cols, masterbom_clean[1], C_part_id_raw)
          # Cell(df_cols, masterbom_clean[2], C_part_id_raw)

\* C4: status classification is a total function of the trimmed, upper-cased
\* plant cell: "X" active, "D" inactive, "0" duplicate, everything else (empty,
\* missing, "NAN", "NONE", unknown) new; hence a part with one plant column
\* holding "X" gets one plant_item_status row, active, with n_active = 1.
C4_ClassificationAndScenarioA ==
    PlantStatusBuilt =>
        /\ \A n \in DOMAIN plant_item_status :
            LET row == plant_item_status[n]
                u == Upper(Strip(Str(row.raw_status)))
            IN /\ u = <<"X">> => row.status_class = "active"
               /\ u = <<"D">> => row.status_class = "inactive"
               /\ u = <<"0">> => row.status_class = "duplicate"
               /\ u \notin {<<"X">>, <<"D">>, <<"0">>} => row.status_class = "new"
        /\ \A r \in DOMAIN df_rows :
            (Len(project_columns) = 1
                /\ Upper(Strip(Str(Cell(df_cols, df_rows[r], project_columns[1])))) = <<"X">>)
            => LET id == Cell(df_cols, df_rows[r], C_part_id_std)
                   mine == {n \in DOMAIN plant_item_status :
                               plant_item_status[n].part_id_std = id}
               IN /\ Cardinality(mine) = 1
                  /\ \A n \in mine : /\ plant_item_status[n].status_class = "active"
                                     /\ plant_item_status[n].n_active = 1

\* C5: is_duplicate is true exactly for the rows classified duplicate whose
\* part_id_std is shared by more than one row of the parts table; a "0" cell of
\* a part whose identifier occurs once is duplicate with is_duplicate false.
C5_DuplicateConfirmedByRepeatedId ==
    PlantStatusBuilt =>
        \A n \in DOMAIN plant_item_status :
            LET row == plant_item_status[n]
            IN /\ row.is_duplicate
                    <=> (row.status_class = "duplicate"
                            /\ Cardinality(PartsRowsWithId(row.part_id_std)) > 1)
               /\ (row.raw_status = StrCell(<<"0">>)
                     /\ Cardinality(PartsRowsWithId(row.part_id_std)) = 1)
                    => (row.status_class = "duplicate" /\ row.is_duplicate = FALSE)
               /\ row.status_class # "duplicate" => row.is_duplicate = FALSE

\* a "0" cell of an identifier that two rows with different raw identifiers
\* share after cleaning, beside an active cell
C5_Witness ==
    /\ PartsDone
    /\ \E n \in DOMAIN plant_item_status :
        /\ plant_item_status[n].status_class = "duplicate"
        /\ plant_item_status[n].is_duplicate
        /\ Cardinality({Cell(df_cols, df_rows[r], C_part_id_raw) :
                            r \in PartsRowsWithId(plant_item_status[n].part_id_std)}) = 2
    /\ \E m \in DOMAIN plant_item_status :
        /\ plant_item_status[m].status_class = "active"
        /\ ~plant_item_status[m].is_duplicate

\* C16: plant_item_status holds exactly one row per (part, plant) pair, a part
\* being identified by its part_id_std: no two rows share the same
\* (part_id_std, project_plant), and every pair of a part of the table and a
\* plant column appears.
C16_OneRowPerPartAndPlant ==
    PlantStatusBuilt =>
        /\ \A m, n \in DOMAIN plant_item_status :
              (/\ plant_item_status[m].part_id_std = plant_item_status[n].part_id_std
               /\ plant_item_status[m].project_plant = plant_item_status[n].project_plant)
              => m = n
        /\ \A r \in DOMAIN df_rows : \A p \in DOMAIN project_columns :
              \E n \in DOMAIN plant_item_status :
                 /\ plant_item_status[n].part_id_std = Cell(df_cols, df_rows[r], C_part_id_std)
                 /\ plant_item_status[n].project_plant = project_columns[p]

\* the columns of the table as it was read (after trimming): the working table
\* without the two identifier columns the Parts Processor appends
OriginalColumns == SelectSeq(df_cols, LAMBDA c : c \notin {C_part_id_raw, C_part_id_std})

ColumnsIdentified == df_pc \in {"identified", "ids", "dates", "text", "pis", "fact", "done"}

\* the columns have just been identified, or the run is complete
IdentifiedOrDone == df_pc \in {"identified", "done"}

T_description == <<"d","e","s","c","r","i","p","t","i","o","n">>

\* the columns strictly after the identifier column and strictly before the
\* first later column whose name holds "item" and word, whatever the case;
\* all the columns after the identifier column when there is none
ColumnsUpToItem(columns, word) ==
    LET id_idx == CHOOSE j \in DOMAIN columns :
                     columns[j] = id_column /\ \A k \in 1..(j - 1) : columns[k] # id_column
        later == {i \in (id_idx + 1)..Len(columns) :
                     LET name == Lower(columns[i])
                     IN Contains(name, T_item) /\ Contains(name, word)}
        last == IF later = {} THEN Len(columns)
                ELSE (CHOOSE i \in later : \A k \in later : i <= k) - 1
    IN [n \in 1..(last - id_idx) |-> columns[id_idx + n]]

\* C19 (as stated): the plant columns are exactly the columns strictly after
\* the identifier column and strictly before the first later column whose name
\* contains both "item" and "description" (case-insensitive), all later columns
\* when there is none; columns added by later stages are never plant columns.
C19_PlantColumnsUpToItemDescription ==
    ColumnsIdentified =>
        /\ IdentifiedOrDone =>
              LET original == OriginalColumns
              IN project_columns = ColumnsUpToItem(original, T_description)
        /\ \A j \in DOMAIN project_columns :
              project_columns[j] \notin {C_part_id_raw, C_part_id_std}

\* C19 (amended): the plant columns are exactly the columns strictly after the
\* identifier column and strictly before the first later column whose name
\* contains both "item" and "desc" (case-insensitive), so that an abbreviated
\* "ITEM DESC." ends the plant columns too; all later columns when there is
\* none; columns added by later stages are never plant columns.
C19_PlantColumnsUpToItemDesc ==
    ColumnsIdentified =>
        /\ IdentifiedOrDone =>
              LET original == OriginalColumns
              IN project_columns = ColumnsUpToItem(original, T_desc)
        /\ \A j \in DOMAIN project_columns :
              project_columns[j] \notin {C_part_id_raw, C_part_id_std}

\* a finished run on a table whose plant columns end at a column naming the
\* item description in abbreviated form, with a further column after it
C19_Witness ==
    /\ PartsDone
    /\ project_columns # <<>>
    /\ \E j \in DOMAIN OriginalColumns :
          /\ Contains(Lower(OriginalColumns[j]), T_item)
          /\ Contains(Lower(OriginalColumns[j]), T_desc)
          /\ ~Contains(Lower(OriginalColumns[j]), T_description)
          /\ j < Len(OriginalColumns)
          /\ \A k \in DOMAIN project_columns : project_columns[k] # OriginalColumns[j]

\* the columns whose trimmed name is the configured name, ignoring case
ColumnsMatchingIdCol ==
    LET original == OriginalColumns
        name == Lower(id_col)
    IN {j \in DOMAIN original : Lower(Strip(original[j])) = name}

IdColumnWarning == "warning: ID column not found, using first column"

\* C20: the identifier column is the first column whose trimmed name equals the
\* configured name ignoring case; when no column matches a warning is logged,
\* the first column is the identifier and the run goes on; column
\* identification fails exactly on a table without columns.
C20_IdentifierColumn ==
    df_pc \in {"failed"} \cup {"identified", "ids", "dates", "text", "pis", "fact", "done"} =>
        IF df_cols = <<>>
        THEN df_pc = "failed"
        ELSE /\ df_pc # "failed"
             /\ IdentifiedOrDone =>
                   LET original == OriginalColumns
                       matching == ColumnsMatchingIdCol
                   IN /\ matching # {} =>
                            /\ \E j \in matching :
                                  /\ \A k \in matching : j <= k
                                  /\ id_column = original[j]
                            /\ \A i \in DOMAIN p_log : p_log[i] # IdColumnWarning
                      /\ matching = {} =>
                            /\ id_column = original[1]
                            /\ \E i \in DOMAIN p_log : p_log[i] = IdColumnWarning

\* a run that found no column of the configured name, logged the warning, took
\* the first column and completed
C20_Witness ==
    /\ PartsDone
    /\ ColumnsMatchingIdCol = {}
    /\ id_column = OriginalColumns[1]
    /\ \E i \in DOMAIN p_log : p_log[i] = IdColumnWarning
    /\ masterbom_clean # <<>>

----------------------------------------------------------------------------
(* Properties of the two processors on a pair of raw tables (ProcessorsSpec) *)

PartsReturned == ord_pc # "idle" /\ df_pc = "done"

\* the column is named in the explicit list of date columns
NamedDateColumn(col) == date_cols # NotGiven /\ col \in Range(date_cols[1])

\* the number held by a cell of a derived column
NumberOf(c) == IF c.t = "float" THEN c.n \div Scale ELSE c.n

\* the derived fields of the value orig, as the row holds them under the
\* names col_date, col_year, col_month, col_day, col_qtr, col_week
DerivedFieldsOf(row, col, orig) ==
    LET d == to_datetime(orig)
        field(k) == Cell(df_cols, row, col \o date_suffixes[k])
    IN IF d = NaT THEN \A k \in DOMAIN date_suffixes : isna(field(k))
       ELSE /\ field(1) = DateCell(d)
            /\ NumberOf(field(2)) = d.year
            /\ NumberOf(field(3)) = d.month
            /\ NumberOf(field(4)) = d.day
            /\ NumberOf(field(5)) = ((d.month - 1) \div 3) + 1
            /\ NumberOf(field(6)) = IsoWeek(d)

\* C21: when the Parts Processor has returned, every column of the parts
\* table that is named in the explicit date-column list or auto-detected as
\* a date column has its six derived fields in masterbom_clean, holding the
\* parts of the date its value parses as, and keeps its own values; a
\* requested column that the table lacks gets no field and no error.
C21_DateColumnsGetDerivedFields ==
    PartsReturned =>
       LET raw == ord_raw.master
           detected == Range(detect_date_columns(raw))
       IN /\ \A j \in DOMAIN raw.cols :
                (NamedDateColumn(raw.cols[j]) \/ raw.cols[j] \in detected) =>
                   /\ \A k \in DOMAIN date_suffixes :
                         HasColumn(df_cols, raw.cols[j] \o date_suffixes[k])
                   /\ \A q \in DOMAIN masterbom_clean :
                         LET row == masterbom_clean[q]
                             orig == raw.rows[row.index + 1].cells[j]
                         IN /\ row.cells[j] = orig
                            /\ DerivedFieldsOf(row, raw.cols[j], orig)
          /\ date_cols # NotGiven =>
                \A n \in DOMAIN date_cols[1] :
                   ~HasColumn(raw.cols, date_cols[1][n]) =>
                      \A k \in DOMAIN date_suffixes :
                         ~HasColumn(df_cols, date_cols[1][n] \o date_suffixes[k])

\* both processors have returned in the second order too
BothOrdersDone == ord_pc \in {"second", "dates"} /\ df_pc = "done" /\ st_pc = "done"

\* the dates that the values of the column called role of the sheet, as it
\* was read, parse as
SheetDatesOfRole(role) ==
    {to_datetime(c) : c \in Range(Column(ord_raw.master, role))} \ {NaT}

----------------------------------------------------------------------------
(* Properties of the Status Processor (StatusSpec) *)

\* process() returned and no exception was raised on the way
StatusDone == st_pc = "done" /\ st_exc = <<>>

\* C6: a status table with the raw header "PSW Available (%)" holding "85"
\* comes out of the Status Processor with that cell equal to 0.85.
C6_PswAvailablePercentIs085 ==
    StatusDone =>
        \A j \in DOMAIN st_raw.cols : \A r \in DOMAIN st_raw.rows :
            (st_raw.cols[j] = H_PSW_Available_Pct /\ st_raw.rows[r].cells[j] = StrCell(V_85))
            => \E q \in DOMAIN st_rows :
                  /\ st_rows[q].index = st_raw.rows[r].index
                  /\ st_rows[q].cells[j] = FloatCell(85 * (Scale \div 100))

\* C8: after the Status Processor every non-null value of a percentage column
\* of status_clean is a fraction between 0 and 1, for every numeric or keyword
\* input (also above 100 and negative).
C8_PercentagesAreFractions ==
    StatusDone =>
        \A j \in DOMAIN st_cols : is_percentage(st_cols[j]) =>
            \A q \in DOMAIN st_rows :
                LET c == st_rows[q].cells[j]
                IN isna(c) \/ (c.t = "float" /\ 0 <= c.n /\ c.n <= Scale)

\* every value of the row is null, or every non-null value stringifies to an
\* empty or whitespace-only string
RowIsBlank(row) ==
    \/ \A k \in DOMAIN row.cells : isna(row.cells[k])
    \/ \A k \in DOMAIN row.cells :
          ~isna(row.cells[k]) => \A i \in DOMAIN Str(row.cells[k]) : IsSpace(Str(row.cells[k])[i])

RowIsKept(row) == ~RowIsBlank(row)

\* C12: empty-row removal removes a row if and only if, when the stage runs,
\* every value of the row is null or every non-null value stringifies to an
\* empty or whitespace-only string; the other rows are kept in their order
\* with their labels and values unchanged.
C12_EmptyRowRemoval ==
    st_pc = "done" => st_rows = SelectSeq(st_before, RowIsKept)

\* a run where the stage removed a row holding a blank, non-null value and
\* kept another row
C12_Witness ==
    /\ st_pc = "done"
    /\ st_rows # <<>>
    /\ \E r \in DOMAIN st_before :
          /\ \A q \in DOMAIN st_rows : st_rows[q].index # st_before[r].index
          /\ \E k \in DOMAIN st_before[r].cells : ~isna(st_before[r].cells[k])

\* C18: an exception raised inside any of the five stages is logged and raised
\* again to the caller of process(): once a stage has raised, the run has ended
\* in the raised state and no later stage has run.
C18_StageExceptionsPropagate ==
    st_exc # <<>> => st_pc = "raised"

\* C29: every row of the raw status table that has at least one non-null,
\* non-whitespace cell is present in status_clean, whatever percentage
\* conversion and project-name cleaning did to its cells.
C29_RowsWithDataAreKept ==
    StatusDone =>
       \A r \in DOMAIN st_raw.rows :
          RowIsKept(st_raw.rows[r])
             => \E q \in DOMAIN st_rows : st_rows[q].index = st_raw.rows[r].index

----------------------------------------------------------------------------
(* Properties of header normalization (HeadersSpec) *)

HeadersCleaned == st_pc = "headers"

\* the header as _standardize_header_name receives and tests it
PreparedHeader(col) == Lower(CollapseWhitespace(Strip(col)))

\* the patterns of the substring table with the canonical names they stand for
canonical_names ==
    << <<T_oem, N_OEM>>, <<T_psw_available, N_PSW_Available>>,
       <<T_drawing_available, N_Drawing_Available>>,
       <<T_1st_ppap_milestone, N_First_PPAP_Milestone>>,
       <<T_total_part_numbers, N_Total_Part_Numbers>>, <<T_managed_by, N_Managed_By>> >>

\* C23: after header normalization every header containing "oem" is OEM,
\* every header containing "psw available" is PSW_Available, "drawing
\* available" Drawing_Available, "1st ppap milestone" First_PPAP_Milestone,
\* "total part numbers" Total_Part_Numbers, "managed by" Managed_By, and a
\* header containing no pattern of the table is its underscore + title-case
\* form.
C23_HeadersTakeTheirCanonicalName ==
    HeadersCleaned =>
       \A j \in DOMAIN st_cols :
          LET header == PreparedHeader(st_raw.cols[j])
          IN /\ \A k \in DOMAIN canonical_names :
                   Contains(header, canonical_names[k][1]) => st_cols[j] = canonical_names[k][2]
             /\ (\A k \in DOMAIN standardizations : ~Contains(header, standardizations[k][1]))
                   => st_cols[j] = Title(ReplaceChar(CollapseWhitespace(Strip(st_raw.cols[j])),
                                                     " ", <<"_">>))

\* C28: the normalized headers of a status table whose raw headers are
\* pairwise different after trimming are pairwise different.
C28_NormalizedHeadersAreDistinct ==
    (/\ HeadersCleaned
     /\ \A i, j \in DOMAIN st_raw.cols :
           i # j => Strip(st_raw.cols[i]) # Strip(st_raw.cols[j]))
       => \A i, j \in DOMAIN st_cols : i # j => st_cols[i] # st_cols[j]

----------------------------------------------------------------------------
(* Properties of the Field Normalizer (NormalizerSpec) *)

\* C7: for every v with 0 <= v <= 1 (also v at or below 0.01), parse_percentage
\* of the text of v*100 followed by "%" is v.
C7_PercentRoundTrip ==
    (nz_pc = "pct_parsed" /\ nz_v >= 0) => nz_out = FloatCell(nz_v)

\* C9: clean_identifier(clean_identifier(x)) = clean_identifier(x) for every
\* input x, null, number or string.
C9_CleanIdIdempotent ==
    nz_pc = "id_recleaned" => nz_out2 = nz_out

\* the first cleaning changed the text and left something to clean again
C9_Witness ==
    /\ nz_pc = "id_recleaned"
    /\ nz_in.t = "str"
    /\ \E i \in DOMAIN nz_in.s : IsSepChar(nz_in.s[i])
    /\ \E i \in DOMAIN nz_in.s : ~KeepIdChar(nz_in.s[i])
    /\ nz_out.s # <<>>
    /\ nz_out2 = nz_out

\* C10: clean_identifier never fails: null gives the empty string, and every
\* other output holds only uppercase letters, digits, hyphens and single
\* spaces, with no leading or trailing space, no underscore and no two spaces
\* in a row; disallowed characters are deleted without a separator being
\* inserted ("  7009@6933#  " gives "70096933").
C10_CleanIdOutputForm ==
    nz_pc \in {"id_cleaned", "id_recleaned"} =>
        LET out == nz_out.s
        IN /\ nz_out.t = "str"
           /\ isna(nz_in) => out = <<>>
           /\ \A i \in DOMAIN out : IsUpper(out[i]) \/ IsDigit(out[i]) \/ out[i] \in {"-", " "}
           /\ out # <<>> => (out[1] # " " /\ out[Len(out)] # " ")
           /\ \A i \in 1..(Len(out) - 1) : ~(out[i] = " " /\ out[i + 1] = " ")
           /\ nz_in = StrCell(T_validate_input) => out = T_validate_output
           /\ (nz_in.t = "str" /\ \A i \in DOMAIN nz_in.s : ~IsSepChar(nz_in.s[i]))
                => out = SelectSeq(Upper(nz_in.s), LAMBDA c : IsUpper(c) \/ IsDigit(c) \/ c = "-")

C10_Witness ==
    /\ nz_pc = "id_cleaned"
    /\ nz_in = StrCell(T_validate_input)
    /\ nz_out = StrCell(T_validate_output)

----------------------------------------------------------------------------
(* Properties of the Date Dimension Builder (DatesSpec) *)

\* the calendar dates that the values of the column called role parse as
DatesOfRole(role) == {to_datetime(c) : c \in Range(Column(master_df, role))} \ {NaT}

DimRowsOf(d, role) ==
    {n \in DOMAIN dim_dates : dim_dates[n].date = d /\ dim_dates[n].role = role}

\* C11: dim_dates holds exactly one row for each (calendar date, role) such
\* that some value of the role's column parses as that date, and no other
\* row: a date seen under two roles has two rows, a value that does not
\* parse has none.
C11_DimDatesOneRowPerDateAndRole ==
    dd_pc = "done" =>
       /\ \A k \in DOMAIN date_column_names :
             \A d \in DatesOfRole(date_column_names[k]) :
                Cardinality(DimRowsOf(d, date_column_names[k])) = 1
       /\ \A n \in DOMAIN dim_dates :
             /\ dim_dates[n].role \in Range(date_column_names)
             /\ dim_dates[n].date \in DatesOfRole(dim_dates[n].role)
             /\ DimRowsOf(dim_dates[n].date, dim_dates[n].role) = {n}

\* a date under two roles, twice in the column of one of them, beside a
\* value that does not parse
C11_Witness ==
    /\ dd_pc = "done"
    /\ \E n, m \in DOMAIN dim_dates :
          dim_dates[n].date = dim_dates[m].date /\ dim_dates[n].role # dim_dates[m].role
    /\ \E k \in DOMAIN date_column_names :
          LET series == Column(master_df, date_column_names[k])
          IN \E i, j \in DOMAIN series :
                i # j /\ series[i] = series[j] /\ to_datetime(series[i]) # NaT
    /\ \E k \in DOMAIN date_column_names :
          \E c \in Range(Column(master_df, date_column_names[k])) :
             ~isna(c) /\ to_datetime(c) = NaT

\* at least one half of the first 10 non-null values of the series parse as
\* a date
at_least_half_parse(series) ==
    LET sample == Head10(SelectSeq(series, LAMBDA c : ~isna(c)))
        valid == Len(SelectSeq(sample, LAMBDA c : to_datetime(c) # NaT))
    IN Len(sample) > 0 /\ 2 * valid >= Len(sample)

\* C22: with no column requested, a column of the raw parts table is
\* auto-detected as a date column if and only if its name contains one of
\* the date patterns and at least 50% of its first 10 non-null values parse
\* as a date (a sample that parses at exactly 50% is flagged; a column with
\* no non-null value is never flagged).
C22_FlaggedIffNamedAndHalfParses ==
    (dd_pc # "collect" /\ rq_date_cols = <<>>) =>
       \A k \in DOMAIN master_df.cols :
          LET col == master_df.cols[k]
          IN col \in Range(date_column_names)
                <=> (is_date_name(col) /\ at_least_half_parse(Column(master_df, col)))

----------------------------------------------------------------------------
(* Properties of the Storage Writer (StorageSpec) *)

StorageReturned == sw_pc \in {"saved", "dict"}

\* the positions of the returned list that hold an artifact of that name
ArtifactsNamed(name) == {n \in DOMAIN artifacts : artifacts[n].name = name}

NonEmptyTables == {i \in DOMAIN all_dataframes : ~df_empty(all_dataframes[i])}

Occurrences(log, message) == Cardinality({n \in DOMAIN log : log[n] = message})

\* a file write of a non-empty table: it is listed and on disk unless it
\* raises, and then it is not listed
FileWriteIsolated(t, ext) ==
    IF <<t.name, ext>> \in sw_fail
    THEN ArtifactsNamed(<<t.name, ext>>) = {}
    ELSE /\ Cardinality(ArtifactsNamed(<<t.name, ext>>)) = 1
         /\ <<t.name, ext>> \in processed_folder.files

\* C14: a write that raises (a table's text file, its binary file, or its
\* relation in the database) is caught and logged and only it is missing
\* from the result: every other file and relation of a non-empty table is
\* written and listed.
C14_WriteFailuresAreIsolated ==
    StorageReturned =>
       /\ \A i \in NonEmptyTables :
             /\ FileWriteIsolated(all_dataframes[i], ".csv")
             /\ FileWriteIsolated(all_dataframes[i], ".parquet")
       /\ Occurrences(sw_log, "error: Failed to save CSV")
             = Cardinality({i \in NonEmptyTables :
                               <<all_dataframes[i].name, ".csv">> \in sw_fail})
       /\ Occurrences(sw_log, "error: Failed to save Parquet")
             = Cardinality({i \in NonEmptyTables :
                               <<all_dataframes[i].name, ".parquet">> \in sw_fail})
       /\ \A i \in NonEmptyTables :
             IF <<all_dataframes[i].name, ".sqlite">> \in sw_fail
             THEN /\ all_dataframes[i].name \notin processed_folder.relations
                  /\ Occurrences(sw_log, "error: Failed to save SQLite database") = 1
             ELSE /\ all_dataframes[i].name \in processed_folder.relations
                  /\ ArtifactsNamed(SqliteName) # {}

\* C17: when no write raises, each non-empty table has exactly one .csv and
\* one .parquet artifact with the table's row count, an empty table has no
\* artifact, and etl.sqlite is written with exactly the non-empty tables as
\* its relations.
C17_ArtifactsOfNonEmptyTables ==
    (StorageReturned /\ sw_fail = {}) =>
       /\ \A i \in DOMAIN all_dataframes :
             LET t == all_dataframes[i]
             IN IF df_empty(t)
                THEN \A n \in DOMAIN artifacts : artifacts[n].name[1] # t.name
                ELSE \A ext \in {".csv", ".parquet"} :
                        /\ Cardinality(ArtifactsNamed(<<t.name, ext>>)) = 1
                        /\ \A n \in ArtifactsNamed(<<t.name, ext>>) :
                              artifacts[n].row_count = t.rows
       /\ SqliteName \in processed_folder.files
       /\ processed_folder.relations = {all_dataframes[i].name : i \in NonEmptyTables}

----------------------------------------------------------------------------
(* Properties of successive runs into one folder (RerunSpec) *)

\* the files of tables that the folder holds
TableFiles == {f \in processed_folder.files : f[2] \in {".csv", ".parquet"}}

\* C30: once a run has saved its tables, every {table}.csv and
\* {table}.parquet file of the folder was written by that run, and
\* etl.sqlite holds that run's non-empty tables and no other relation: a
\* table that is empty in this run has left no file and no relation.
C30_FolderReflectsLatestRun ==
    sw_pc \in {"saved", "dict"} =>
       /\ \A f \in TableFiles : \E n \in DOMAIN artifacts : artifacts[n].name = f
       /\ processed_folder.relations \subseteq
             {all_dataframes[i].name : i \in NonEmptyTables}
       /\ SqliteName \in processed_folder.files =>
             processed_folder.relations = {all_dataframes[i].name : i \in NonEmptyTables}

----------------------------------------------------------------------------
(* Properties of a transformation run (RunSpec) *)

\* the run was handed its two raw tables
RunHasTables == rq = "ok"

\* the raw parts table has its columns and no row
ZeroRowPartsTable == RunHasTables /\ master_df.cols # <<>> /\ master_df.rows = <<>>

SummaryCountsAreZero(summary) ==
    /\ summary.total_parts = 0
    /\ summary.active_parts = 0 /\ summary.inactive_parts = 0
    /\ summary.new_parts = 0 /\ summary.duplicate_parts = 0
    /\ summary.plants_detected = 0

\* C13: with a parts table of zero rows no stage of the Parts Processor, the
\* Date Dimension Builder or the Storage Writer raises, masterbom_clean,
\* plant_item_status, fact_parts and dim_dates are empty, and the run (whose
\* Status Processor does not raise) returns success = true with total_parts,
\* the four status counts and plants_detected all 0.
C13_ZeroRowPartsTable ==
    ZeroRowPartsTable =>
       /\ df_pc # "failed"
       /\ df_pc = "done" =>
             masterbom_clean = <<>> /\ plant_item_status = <<>> /\ fact_parts = <<>>
       /\ dd_pc = "done" => dim_dates = <<>>
       /\ sw_pc \in {"saved", "dict"} =>
             \A i \in {1, 2, 3, 5} : \A n \in DOMAIN artifacts :
                artifacts[n].name[1] # TableNames[i]
       /\ (run_pc = "responded" /\ st_pc # "raised") =>
             /\ response.returned /\ response.success
             /\ SummaryCountsAreZero(response.summary)

\* a completed run on a zero-row parts table that has plant columns, beside
\* a status table that keeps its row
C13_Witness ==
    /\ ZeroRowPartsTable
    /\ run_pc = "responded" /\ response.success
    /\ project_columns # <<>>
    /\ st_rows # <<>>

\* block occurs in log as consecutive messages
IsBlockOf(block, log) ==
    \E i \in 0..(Len(log) - Len(block)) : SubSeq(log, i + 1, i + Len(block)) = block

\* the run is before a step of the pipeline: the step runs, or the handler
\* of a raised exception does
RunIsAtAStep ==
    \/ run_pc = "start"
    \/ run_pc = "parts"
          /\ df_pc \in {"start", "named", "identified", "ids", "dates", "text", "pis",
                         "fact", "done", "failed"}
    \/ run_pc = "status"
          /\ st_pc \in {"start", "headers", "text", "pct", "project", "done", "raised"}
    \/ run_pc = "dates" /\ dd_pc \in {"collect", "collected", "done"}
    \/ run_pc = "storage" /\ sw_pc \in {"save", "saved", "dict"}

\* C15: a run that was handed its two tables ends only by returning a
\* structured result, whose message log is everything logged up to then, in
\* order: after normal completion success = true with the artifacts and the
\* summary; after an exception in a processing step success = false, no
\* artifacts, every summary count 0, the message of the exception, and no
\* later step has run.
C15_StructuredResult ==
    RunHasTables =>
       /\ run_pc # "responded" => RunIsAtAStep
       /\ run_pc = "responded" <=> response.returned
       /\ (run_pc = "responded" /\ (df_pc = "failed" \/ st_pc = "raised"))
             => ~response.success
       /\ response.returned =>
             /\ response.messages = run_log
             /\ response.messages[1] = "Starting ETL transformation"
             /\ IsBlockOf(p_log, response.messages)
             /\ st_pc # "idle" => IsBlockOf(st_log, response.messages)
             /\ sw_pc # "idle" => IsBlockOf(sw_log, response.messages)
             /\ IF response.success
                THEN /\ df_pc = "done" /\ st_pc = "done" /\ dd_pc = "done" /\ sw_pc = "dict"
                     /\ SubSeq(response.artifacts, 1, Len(artifacts)) = artifacts
                     /\ response.summary
                           = calculate_summary(plant_item_status, date_column_names)
                     /\ response.error = ""
                ELSE /\ df_pc = "failed" \/ st_pc = "raised"
                     /\ response.artifacts = <<>>
                     /\ response.summary = ZeroSummary
                     /\ response.error = ExceptionMessage
                     /\ response.messages[Len(response.messages)]
                           = "error: ETL transformation failed with unexpected error"
                     /\ dd_pc = "idle" /\ sw_pc = "idle"

\* the Status Processor raised after the Parts Processor had completed, and
\* the failure response holds the messages of both
C15_Witness ==
    /\ RunHasTables
    /\ response.returned /\ ~response.success
    /\ df_pc = "done" /\ st_pc = "raised"
    /\ Occurrences(response.messages, "MasterBOM processing complete") = 1
    /\ Occurrences(response.messages, "error: Error in status processing") = 1

RunSucceeded == run_pc = "responded" /\ response.returned /\ response.success

PartsOf(plant_status) == {plant_status[n].part_id_std : n \in DOMAIN plant_status}

PlantsOf(plant_status) == {plant_status[n].project_plant : n \in DOMAIN plant_status}

\* C25: in the summary of a successful run total_parts is the number of
\* distinct part_id_std of plant_item_status, plants_detected the number of
\* distinct plant columns it names, and none of active_parts, inactive_parts,
\* new_parts and duplicate_parts exceeds total_parts; with an empty
\* plant_item_status all six are 0.
C25_SummaryCounts ==
    RunSucceeded =>
       LET summary == response.summary
       IN /\ summary.total_parts = Cardinality(PartsOf(plant_item_status))
          /\ summary.plants_detected = Cardinality(PlantsOf(plant_item_status))
          /\ summary.active_parts <= summary.total_parts
          /\ summary.inactive_parts <= summary.total_parts
          /\ summary.new_parts <= summary.total_parts
          /\ summary.duplicate_parts <= summary.total_parts
          /\ plant_item_status = <<>> => SummaryCountsAreZero(summary)

\* the Status Processor of the run has raised out of process()
StatusRaised == st_pc = "raised"

\* C24: the run invokes the Parts Processor, the Status Processor, the Date
\* Dimension Builder, the Storage Writer and the summary computation in that
\* order, each after the one before it has returned; once the Status
\* Processor has raised, the Date Dimension Builder and the Storage Writer
\* are not invoked, no output file is written, and the result of the run
\* reports success = false with the message of the exception.
C24_StagesInOrderAndStatusErrorAborts ==
    /\ st_pc # "idle" => df_pc = "done"
    /\ dd_pc # "idle" => st_pc = "done"
    /\ sw_pc # "idle" => dd_pc = "done"
    /\ RunSucceeded => sw_pc = "dict"
    /\ StatusRaised =>
          /\ dd_pc = "idle" /\ dim_dates = <<>>
          /\ sw_pc = "idle" /\ artifacts = <<>>
          /\ processed_folder = EmptyFolder
          /\ run_pc = "responded" =>
                /\ response.returned /\ ~response.success
                /\ response.artifacts = <<>>
                /\ response.error = st_exc[Len(st_exc)]

\* a run whose Parts Processor produced its tables, whose Status Processor
\* raised in its last stage, and which has returned its result
C24_Witness ==
    /\ run_pc = "responded"
    /\ StatusRaised /\ st_exc = <<"rows">>
    /\ masterbom_clean # <<>> /\ plant_item_status # <<>>
    /\ ~response.success

----------------------------------------------------------------------------
(* Properties of two concurrent runs (ConcurrentSpec) *)

BothRunsDone == \A r \in Runs : cc_pc[r] = "done"

\* the relations run r writes, each marked as its own
RelationsOfRun(r) ==
    {<<cc_tables[r][i].name, r>> : i \in {j \in DOMAIN cc_tables[r] : ~df_empty(cc_tables[r][j])}}

\* C26: once both concurrent runs have finished, etl.sqlite exists and holds
\* the relations of exactly one of the two runs, never a mixture of both.
C26_SqliteIsOneRunsDatabase ==
    BothRunsDone =>
       /\ cc_path # 0
       /\ \E r \in Runs : cc_inodes[cc_path] = RelationsOfRun(r)

====
